---- MODULE Spec2Model ----
(***************************************************************************)
(* Bubble-sheet recognition of AhmedElsenosy/teacher.                      *)
(*                                                                         *)
(* Two programs are modelled.                                              *)
(*   - app/utils/bubble_sheet_processor.py: process_bubble_sheet, which    *)
(*     aligns a photographed sheet with the reference layout               *)
(*     (compare_with_reference), measures every reference bubble           *)
(*     (create_visualization) and decodes the fills (calculate_grade).     *)
(*   - BubbleSheetCorrecterModule/bubble_edge_detector.py: main, which     *)
(*     runs detect_bubble_edges over the collected coordinates and saves   *)
(*     the detected bubbles as the reference layout.                       *)
(* OpenCV is outside the repository: what it measures on an image is an    *)
(* input of the model (the fields of `image`) or a choice of the           *)
(* environment in the action that calls it.                                *)
(***************************************************************************)
EXTENDS Integers, Sequences, FiniteSets, TLC

VARIABLES
    pc,                         \* position of the running program
    coordinates,                \* bubble_coordinates.txt: the collected bubble ids
    reference_data,             \* reference_data.json: aruco_markers, bubbles
    id_reference_data,          \* id_coordinates.json, or absent
    exam_model_reference_data,  \* exam_models.json[exam_model_key], or absent
    image,                      \* the photographed sheet, as OpenCV measures it
    current_markers,            \* compare_with_reference: detect_aruco_markers(current_image)
    ref_marker_points,          \* compare_with_reference: matched reference centers
    cur_marker_points,          \* compare_with_reference: matched current centers
    aligned,                    \* compare_with_reference's return, or the error it raised
    bubbles_data,               \* create_visualization: fills of the answer bubbles
    id_bubbles_data,            \* create_visualization: fills of the ID bubbles
    exam_model_bubbles_data,    \* create_visualization: fills of the exam-model bubbles
    grade_data,                 \* calculate_grade's return value
    result,                     \* process_bubble_sheet's return value
    blurred,                    \* detect_bubble_edges: the sheet, one ROI per coordinate
    questions,                  \* detect_bubble_edges: the coordinates, question by question
    slot,                       \* detect_bubble_edges: place of coord in the running loop
    reference_bubbles,          \* detect_bubble_edges: areas found by the first pass
    target_area,                \* detect_bubble_edges: get_average_bubble_area's result
    bubble_data,                \* detect_bubble_edges: the detected bubbles
    failed_coords,              \* detect_bubble_edges: the failed detections
    attempted,                  \* the strategies run on the ROI of coord in this pass
    best_contour,               \* the best candidate found on the ROI of coord
    best_circularity,           \* its circularity
    roi_gray,                   \* calculate_fill_percentage: the pixels of the ROI
    roi_mask,                   \* calculate_fill_percentage: the mask of the bubble
    thresh,                     \* calculate_fill_percentage: the ROI after Otsu's threshold
    thresh_adapt,               \* calculate_fill_percentage: after the adaptive threshold
    fill_percent,               \* the fill percent returned, a fraction num / den
    bubble_coords,              \* analyze_bubbles: the candidates, x, y, w, h and fill
    is_id,                      \* analyze_bubbles: the section is the ID section
    columns,                    \* analyze_bubbles: the column clusters, left to right
    col_idx,                    \* analyze_bubbles: the columns processed so far
    row_labels,                 \* analyze_bubbles: the row labels of each column processed
    grid,                       \* analyze_bubbles: the cells marked, or the error raised
    results,                    \* BubbleSheetReader.process_image: the results decoded
    students,                   \* the students collection: _id -> document
    archived_students,          \* the archived_students collection, in insertion order
    blacklist,                  \* the blacklist collection: _id -> document
    runs,                       \* archive_unpaid_students: the place and locals of each run
    student_result,             \* correct_exam: the processing results of the student's sheet
    exam_result,                \* correct_exam: the processing results of the key's sheet
    final_degree,               \* correct_exam: the maximum possible score
    student_answers,            \* correct_exam: the student's answers extracted
    correct_answers,            \* correct_exam: the key's answers extracted
    score_result                \* _calculate_score's return value

sheetVars == <<pc, coordinates, reference_data, id_reference_data, exam_model_reference_data, image,
               current_markers, ref_marker_points, cur_marker_points, aligned,
               bubbles_data, id_bubbles_data, exam_model_bubbles_data, grade_data, result>>

\* The files and locals of process_bubble_sheet.
sheetData == <<coordinates, reference_data, id_reference_data, exam_model_reference_data, image,
               current_markers, ref_marker_points, cur_marker_points, aligned,
               bubbles_data, id_bubbles_data, exam_model_bubbles_data, grade_data, result>>

detectVars == <<blurred, questions, slot, reference_bubbles, target_area, bubble_data, failed_coords,
                attempted, best_contour, best_circularity>>

fillVars == <<roi_gray, roi_mask, thresh, thresh_adapt, fill_percent>>

gridVars == <<bubble_coords, is_id, columns, col_idx, row_labels, grid>>

\* The variables of the other functions checked on their own.
dbVars == <<students, archived_students, blacklist, runs>>

scoreVars == <<student_result, exam_result, final_degree, student_answers, correct_answers,
               score_result>>

restVars == <<results, dbVars, scoreVars>>

\* The variables of the functions checked on their own.
toolVars == <<fillVars, gridVars, restVars>>

vars == <<sheetVars, detectVars, toolVars>>

(***************************************************************************)
(* Python values.                                                          *)
(***************************************************************************)
\* None, where the other values of the variable are strings.
None == "None"

\* An optional list: Python's None, or a list.
NoneList == [is_none |-> TRUE, items |-> <<>>]
List(s) == [is_none |-> FALSE, items |-> s]

\* Truthiness of an optional list: None and [] are both false.
Truthy(l) == ~l.is_none /\ Len(l.items) > 0

\* chr(65 + i)
Alphabet == <<"A", "B", "C", "D", "E", "F", "G", "H", "I", "J", "K", "L", "M",
              "N", "O", "P", "Q", "R", "S", "T", "U", "V", "W", "X", "Y", "Z">>
chr65(i) == Alphabet[i + 1]

\* str(n) of a non-negative integer, as the sequence of its characters.
Digits == <<"0", "1", "2", "3", "4", "5", "6", "7", "8", "9">>
RECURSIVE str(_)
str(n) == IF n < 10 THEN <<Digits[n + 1]>> ELSE str(n \div 10) \o <<Digits[(n % 10) + 1]>>

\* [f(x) for x in s if p(x)]
IndicesWhere(s, P(_)) == SelectSeq([i \in 1..Len(s) |-> i - 1], LAMBDA i : P(s[i + 1]))

\* list.sort(key=lambda x: x['number']): a stable insertion sort.
RECURSIVE InsertByNumber(_, _)
InsertByNumber(sorted, b) ==
    IF sorted = <<>> THEN <<b>>
    ELSE IF sorted[Len(sorted)].number <= b.number THEN Append(sorted, b)
    ELSE Append(InsertByNumber(SubSeq(sorted, 1, Len(sorted) - 1), b), sorted[Len(sorted)])
RECURSIVE SortByNumber(_)
SortByNumber(s) ==
    IF s = <<>> THEN <<>>
    ELSE InsertByNumber(SortByNumber(SubSeq(s, 1, Len(s) - 1)), s[Len(s)])

(***************************************************************************)
(* compare_bubbles.py: the answer decoder.                                 *)
(***************************************************************************)
FILLING_PERCENT == 50

\* line 51: bubble['fill_percent'] > FILLING_PERCENT
AnswerFilledAtOrAbove(bubble) == bubble.fill_percent >= FILLING_PERCENT
AnswerFilled(bubble) == bubble.fill_percent > FILLING_PERCENT

\* line 88: model['fill_percent'] > FILLING_PERCENT
ModelFilled(model) == model.fill_percent > FILLING_PERCENT

\* line 113: b['fill_percent'] > FILLING_PERCENT
IdFilled(b) == b.fill_percent > FILLING_PERCENT

\* lines 53-61: the answer of one question from the indices of its filled bubbles.
AnswerOfFirstFilled(filled_bubbles) ==
    IF Len(filled_bubbles) = 0 THEN None ELSE chr65(filled_bubbles[1])
AnswerOf(filled_bubbles) ==
    IF Len(filled_bubbles) = 0 THEN None
    ELSE IF Len(filled_bubbles) > 1 THEN "multiple"
    ELSE chr65(filled_bubbles[1])

\* lines 43-67: one record per complete group of 5 bubbles.
GradeAnswers(data) ==
    LET total_questions == Len(data) \div 5
    IN  [q1 \in 1..total_questions |->
            LET q == q1 - 1
                question_bubbles == SubSeq(data, q * 5 + 1, (q + 1) * 5)
                filled_bubbles == IndicesWhere(question_bubbles, AnswerFilled)
            IN  [question |-> q + 1,
                 answer |-> AnswerOf(filled_bubbles),
                 fill_percentages |->
                     [i \in 1..Len(question_bubbles) |-> question_bubbles[i].fill_percent]]]

\* lines 69-72
CountWhere(s, P(_)) == Cardinality({i \in 1..Len(s) : P(s[i])})

\* lines 84-101: the exam-model entry of the result, when exam_model_data is truthy.
ExamModelValueNoMultiple(filled_models) ==
    IF Len(filled_models) >= 1 THEN chr65(filled_models[1]) ELSE "BLANK"
ExamModelValue(filled_models) ==
    IF Len(filled_models) = 1 THEN chr65(filled_models[1])
    ELSE IF Len(filled_models) > 1 THEN "MULTIPLE"
    ELSE "BLANK"

GradeExamModel(exam_data) ==
    LET filled_models == IndicesWhere(exam_data, ModelFilled)
        exam_model == ExamModelValue(filled_models)
    IN  [value |-> exam_model,
         fill_percentages |->
             [i \in 1..Len(exam_data) |-> exam_data[i].fill_percent],
         is_valid |-> exam_model \notin {"MULTIPLE", "BLANK"}]

\* line 107: for col in range(3, 8)
IdColumns == <<3, 4, 5, 6, 7>>

\* lines 108-120: the characters one column adds to id_number.
IdColumnTextShifted(id_data, col) ==
    LET column_bubbles == SortByNumber(SelectSeq(id_data, LAMBDA b : b.column = col - 3))
        filled_bubbles == SelectSeq(column_bubbles, IdFilled)
    IN  IF Len(filled_bubbles) = 1 THEN str(filled_bubbles[1].number)
        ELSE IF Len(filled_bubbles) > 1 THEN <<"X">>
        ELSE <<"_">>
IdColumnText(id_data, col) ==
    LET column_bubbles == SortByNumber(SelectSeq(id_data, LAMBDA b : b.column = col))
        filled_bubbles == SelectSeq(column_bubbles, IdFilled)
    IN  IF Len(filled_bubbles) = 1 THEN str(filled_bubbles[1].number)
        ELSE IF Len(filled_bubbles) > 1 THEN <<"X">>
        ELSE <<"_">>

RECURSIVE IdNumber(_, _, _)
IdNumber(id_data, cols, k) ==
    IF k > Len(cols) THEN <<>>
    ELSE IdColumnText(id_data, cols[k]) \o IdNumber(id_data, cols, k + 1)

\* x in id_number
Contains(s, x) == \E i \in 1..Len(s) : s[i] = x

\* lines 103-125: the id entry of the result, when id_bubbles_data is truthy.
GradeId(id_data) ==
    LET id_number == IdNumber(id_data, IdColumns, 1)
    IN  [value |-> id_number,
         is_complete |-> ~Contains(id_number, "_") /\ ~Contains(id_number, "X")]

\* calculate_grade with line 69 counting every answer that is not None, the
\* multiple ones too.
calculate_grade_multiple_answered(data, id_data, exam_data) ==
    LET answers == GradeAnswers(data)
    IN  [total_questions |-> Len(data) \div 5,
         answers |-> answers,
         statistics |->
             [total_answered |-> CountWhere(answers, LAMBDA a : a.answer # None),
              multiple_answers |-> CountWhere(answers, LAMBDA a : a.answer = "multiple"),
              unanswered |-> CountWhere(answers, LAMBDA a : a.answer = None)],
         exam_model |-> IF Truthy(exam_data) THEN <<GradeExamModel(exam_data.items)>> ELSE <<>>,
         id |-> IF Truthy(id_data) THEN <<GradeId(id_data.items)>> ELSE <<>>]

\* calculate_grade(bubbles_data, id_bubbles_data, exam_model_data). The optional
\* keys 'exam_model' and 'id' are lists of zero or one entry.
calculate_grade(data, id_data, exam_data) ==
    LET answers == GradeAnswers(data)
    IN  [total_questions |-> Len(data) \div 5,
         answers |-> answers,
         statistics |->
             [total_answered |->
                  CountWhere(answers, LAMBDA a : a.answer # None /\ a.answer # "multiple"),
              multiple_answers |-> CountWhere(answers, LAMBDA a : a.answer = "multiple"),
              unanswered |-> CountWhere(answers, LAMBDA a : a.answer = None)],
         exam_model |-> IF Truthy(exam_data) THEN <<GradeExamModel(exam_data.items)>> ELSE <<>>,
         id |-> IF Truthy(id_data) THEN <<GradeId(id_data.items)>> ELSE <<>>]

\* A call calculate_grade(bubbles_data, id_bubbles_data, exam_model_data).
CalculateGrade ==
    /\ pc = "grade"
    /\ grade_data' = calculate_grade(bubbles_data.items, id_bubbles_data, exam_model_bubbles_data)
    /\ pc' = "graded"
    /\ UNCHANGED <<coordinates, reference_data, id_reference_data, exam_model_reference_data,
                   image, current_markers, ref_marker_points, cur_marker_points, aligned,
                   bubbles_data, id_bubbles_data, exam_model_bubbles_data, result>>
    /\ UNCHANGED detectVars
    /\ UNCHANGED toolVars

(***************************************************************************)
(* Sheets, layouts and images.                                             *)
(***************************************************************************)
\* collect_coordinates.py, save_coordinates: the idx-th click is bubble
\* Q{idx // 5 + 1}B{idx % 5 + 1}; an id is kept as its two numbers.
BubbleId(idx) == [q |-> (idx \div 5) + 1, b |-> (idx % 5) + 1]
Coordinates(n) == [k \in 1..n |-> BubbleId(k - 1)]

\* A marker of a marker list: its id and its center, named by the place of the
\* marker in the list the detector returned.
Marker(ids, k) == [id |-> ids[k], center |-> k]
Markers(ids) == [k \in 1..Len(ids) |-> Marker(ids, k)]

(***************************************************************************)
(* bubble_edge_detector.py: registration.                                  *)
(***************************************************************************)
\* detect_aruco_markers: None when the detector finds no id, else the markers found.
detect_aruco_markers(found) == IF Len(found) = 0 THEN NoneList ELSE List(found)

\* lines 645-649: the (reference, current) pairs with equal ids, in loop order.
MatchedPairs(ref_markers, cur_markers) ==
    LET n == Len(cur_markers)
        all == [k \in 1..(Len(ref_markers) * n) |-> <<((k - 1) \div n) + 1, ((k - 1) % n) + 1>>]
    IN  SelectSeq(all, LAMBDA p : ref_markers[p[1]].id = cur_markers[p[2]].id)

\* line 651: the matched points that registration needs.
MinMatches == 3

\* points[:3]
Take3(points) == SubSeq(points, 1, IF Len(points) < 3 THEN Len(points) ELSE 3)

\* Points are <<x, y>> in pixels.
Minus(a, b) == <<a[1] - b[1], a[2] - b[2]>>
Det(a, b) == a[1] * b[2] - a[2] * b[1]

\* lines 659-666: the point the matrix cv2.getAffineTransform(src, dst) takes p to,
\* as the fraction <<x, y>> / den; t holds the three src and the three dst points.
Warp(t, p) ==
    LET u == Det(Minus(p, t.src[1]), Minus(t.src[3], t.src[1]))
        v == Det(Minus(t.src[2], t.src[1]), Minus(p, t.src[1]))
        den == Det(Minus(t.src[2], t.src[1]), Minus(t.src[3], t.src[1]))
    IN  [den |-> den,
         x |-> den * t.dst[1][1] + u * (t.dst[2][1] - t.dst[1][1]) + v * (t.dst[3][1] - t.dst[1][1]),
         y |-> den * t.dst[1][2] + u * (t.dst[2][2] - t.dst[1][2]) + v * (t.dst[3][2] - t.dst[1][2])]

(***************************************************************************)
(* compare_bubbles.py: create_visualization.                               *)
(***************************************************************************)
\* line 243: the ID columns that are not measured.
IdColumnsSkipped == {0, 1, 2, 8, 9}

\* aruco_based_exam_model.py, line 100: the letters positioned from the markers.
ArucoExamLetters == 3

\* lines 151-225: exam_model_bubbles_data. `detected` is what detect_aruco_markers
\* finds in the aligned image.
ExamModelBubblesData(exam_ref, detected, exam_fill) ==
    IF ~exam_ref.present THEN <<>>
    ELSE
        LET bubbles == exam_ref.exam_model_bubbles
            is_aruco_based == \E i \in 1..Len(bubbles) : bubbles[i].aruco_based
            stored == [i \in 1..Len(bubbles) |-> [fill_percent |-> exam_fill[i]]]
            has0 == \E i \in 1..Len(detected.items) : detected.items[i].id = 0
            has1 == \E i \in 1..Len(detected.items) : detected.items[i].id = 1
        IN  IF ~is_aruco_based THEN stored
            ELSE IF ~Truthy(detected) THEN <<>>
            ELSE IF has0 /\ has1
                 THEN [i \in 1..ArucoExamLetters |-> [fill_percent |-> exam_fill[i]]]
                 ELSE stored

\* lines 228-237: one fill per bubble of the reference layout, in layout order.
BubblesData(ref_bubbles, fill) ==
    [i \in 1..Len(ref_bubbles) |-> [fill_percent |-> fill[ref_bubbles[i].id]]]

\* lines 240-263: the ID bubbles of columns 3-7, in layout order.
IdBubblesData(id_ref, id_fill) ==
    IF ~id_ref.present THEN <<>>
    ELSE LET kept == SelectSeq(id_ref.id_bubbles, LAMBDA b : b.column \notin IdColumnsSkipped)
         IN  [i \in 1..Len(kept) |->
                 [column |-> kept[i].column, number |-> kept[i].number,
                  fill_percent |-> id_fill[<<kept[i].column, kept[i].number>>]]]

(***************************************************************************)
(* bubble_sheet_processor.py: process_bubble_sheet.                        *)
(***************************************************************************)
NotReturned == [returned |-> FALSE]

\* lines 168-176: the value returned from the except clause.
Failure(e) ==
    [returned |-> TRUE,
     visualization_image |-> None,
     results |-> NoneList,
     csv_path |-> NoneList,
     json_path |-> NoneList,
     visualization_path |-> NoneList,
     success |-> FALSE,
     message |-> <<"Error processing bubble sheet: ", e>>]

\* lines 94-132
Results(grade) ==
    [grade_data |-> grade,
     summary |-> [total_questions |-> grade.total_questions,
                  questions_answered |-> grade.statistics.total_answered,
                  multiple_answers |-> grade.statistics.multiple_answers,
                  unanswered |-> grade.statistics.unanswered,
                  exam_model |-> grade.exam_model,
                  student_id |-> grade.id]]

\* lines 154-162: each path is a one-element list, [None] unless SAVE_RESULTS is true.
Success(grade, save_results) ==
    [returned |-> TRUE,
     visualization_image |-> "vis_image",
     results |-> List(<<Results(grade)>>),
     csv_path |-> List(<<IF save_results THEN "csv_path" ELSE None>>),
     json_path |-> List(<<IF save_results THEN "json_path" ELSE None>>),
     visualization_path |-> List(<<IF save_results THEN "vis_path" ELSE None>>),
     success |-> TRUE,
     message |-> <<"Processing completed successfully">>]

NotCalled == [called |-> FALSE]

\* lines 75-76: image is None.
ImageMissing ==
    /\ pc = "start"
    /\ ~image.loaded
    /\ pc' = "done"
    /\ result' = Failure("Could not load image")
    /\ UNCHANGED <<coordinates, reference_data, id_reference_data, exam_model_reference_data, image,
                   current_markers, ref_marker_points, cur_marker_points, aligned,
                   bubbles_data, id_bubbles_data, exam_model_bubbles_data, grade_data>>
    /\ UNCHANGED detectVars
    /\ UNCHANGED toolVars

\* line 81 and bubble_edge_detector.py lines 630-668: compare_with_reference, up to
\* its return or the exception it raises.
CompareWithReference ==
    /\ pc = "start"
    /\ image.loaded
    /\ LET markers == detect_aruco_markers(image.markers)
           pairs == IF markers.is_none THEN <<>>
                    ELSE MatchedPairs(reference_data.aruco_markers, markers.items)
           ref_points == [i \in 1..Len(pairs) |-> reference_data.aruco_markers[pairs[i][1]].center]
           cur_points == [i \in 1..Len(pairs) |-> markers.items[pairs[i][2]].center]
       IN  /\ current_markers' = markers
           /\ ref_marker_points' = ref_points
           /\ cur_marker_points' = cur_points
           /\ aligned' =
                  IF markers.is_none
                  THEN [called |-> TRUE, raised |-> TRUE,
                        error |-> "No ArUco markers detected in current image"]
                  ELSE IF Len(ref_points) < MinMatches
                  THEN [called |-> TRUE, raised |-> TRUE,
                        error |-> "Not enough matching markers found"]
                  ELSE [called |-> TRUE, raised |-> FALSE,
                        transform_matrix |-> [src |-> Take3(cur_points), dst |-> Take3(ref_points)],
                        aligned_image |-> "aligned_image"]
    /\ pc' = "aligned"
    /\ UNCHANGED <<coordinates, reference_data, id_reference_data, exam_model_reference_data, image,
                   bubbles_data, id_bubbles_data, exam_model_bubbles_data, grade_data, result>>
    /\ UNCHANGED detectVars
    /\ UNCHANGED toolVars

\* lines 164-176: the exception of compare_with_reference reaches the except clause.
HandleError ==
    /\ pc = "aligned"
    /\ aligned.raised
    /\ pc' = "done"
    /\ result' = Failure(aligned.error)
    /\ UNCHANGED <<coordinates, reference_data, id_reference_data, exam_model_reference_data, image,
                   current_markers, ref_marker_points, cur_marker_points, aligned,
                   bubbles_data, id_bubbles_data, exam_model_bubbles_data, grade_data>>
    /\ UNCHANGED detectVars
    /\ UNCHANGED toolVars

\* lines 84-162 and compare_bubbles.py lines 129-314: create_visualization on the
\* aligned image, then the result record.
CreateVisualization ==
    /\ pc = "aligned"
    /\ ~aligned.raised
    /\ LET data == BubblesData(reference_data.bubbles, image.fill)
           id_data == IdBubblesData(id_reference_data, image.id_fill)
           exam_data == ExamModelBubblesData(exam_model_reference_data,
                                             detect_aruco_markers(image.aligned_markers),
                                             image.exam_fill)
           grade == calculate_grade(data,
                                    IF id_reference_data.present THEN List(id_data) ELSE NoneList,
                                    IF exam_model_reference_data.present
                                    THEN List(exam_data) ELSE NoneList)
       IN  /\ bubbles_data' = List(data)
           /\ id_bubbles_data' = List(id_data)
           /\ exam_model_bubbles_data' = List(exam_data)
           /\ grade_data' = grade
           /\ \E save_results \in BOOLEAN : result' = Success(grade, save_results)
    /\ pc' = "done"
    /\ UNCHANGED <<coordinates, reference_data, id_reference_data, exam_model_reference_data,
                   image, current_markers, ref_marker_points, cur_marker_points, aligned>>
    /\ UNCHANGED detectVars
    /\ UNCHANGED toolVars

process_bubble_sheet == ImageMissing \/ CompareWithReference \/ HandleError \/ CreateVisualization

(***************************************************************************)
(* Inputs.                                                                 *)
(***************************************************************************)
MaxMarkers == 3      \* markers in one marker list
MaxMarkerId == 2     \* marker ids are 0..MaxMarkerId
MaxBubbles == 5      \* answer bubbles whose fills take every level
MaxCoords == 10      \* collected coordinates of a sheet of blank and filled bubbles
MaxFailed == 1       \* coordinates whose detection failed when the layout was saved
MaxExamBubbles == 5  \* bubbles of the exam-model block

\* fill percents: blank and marked, around the threshold, blank and filled
FillMarked == {5, 55, 60}
FillEdge == {5, FILLING_PERCENT, FILLING_PERCENT + 1, 72}
FillPlain == {5, 80}

Fills(n, levels) == {[i \in 1..n |-> [fill_percent |-> f[i]]] : f \in [1..n -> levels]}

MarkerIdLists == UNION {[1..n -> 0..MaxMarkerId] : n \in 0..MaxMarkers}
GoodMarkerIds == <<0, 1, 2>>

Ids(coords) == {coords[i] : i \in 1..Len(coords)}

\* bubble_edge_detector.py lines 595-611 (save_reference_data): the reference layout
\* lists the bubbles that detect_bubble_edges returned in bubble_data, in its order,
\* that is the collected coordinates without those whose detection failed.
ReferenceBubbles(coords, failed) ==
    LET kept == SelectSeq(coords, LAMBDA id : id \notin failed)
    IN  [i \in 1..Len(kept) |-> [id |-> kept[i]]]

ReferenceData(marker_ids, coords, failed) ==
    [aruco_markers |-> Markers(marker_ids),
     bubbles |-> ReferenceBubbles(coords, failed)]

NoIdReference == [present |-> FALSE, id_bubbles |-> <<>>]
NoExamReference == [present |-> FALSE, exam_model_bubbles |-> <<>>]

\* id_coordinates.json: one bubble per (number, column), row by row from the last.
IdBubbles(cols, rows) ==
    LET n == Len(cols)
    IN  [k \in 1..(Len(rows) * n) |->
            [column |-> cols[((k - 1) % n) + 1], number |-> rows[Len(rows) - ((k - 1) \div n)]]]

IdReference(cols, rows) == [present |-> TRUE, id_bubbles |-> IdBubbles(cols, rows)]

ExamReference(k, aruco) ==
    [present |-> TRUE,
     exam_model_bubbles |-> [i \in 1..k |-> [model_letter |-> chr65(i - 1), aruco_based |-> aruco]]]

Image(marker_ids, aligned_ids, fill, id_fill, exam_fill) ==
    [loaded |-> TRUE, markers |-> Markers(marker_ids), aligned_markers |-> Markers(aligned_ids),
     fill |-> fill, id_fill |-> id_fill, exam_fill |-> exam_fill]

NoImage ==
    [loaded |-> FALSE, markers |-> <<>>, aligned_markers |-> <<>>,
     fill |-> <<>>, id_fill |-> <<>>, exam_fill |-> <<>>]

\* A sheet of one question answered A.
OneQuestion == Coordinates(5)
AnsweredA == [id \in Ids(OneQuestion) |-> IF id.b = 1 THEN 80 ELSE 5]

\* ID blocks: five columns 0..4, the columns 3..7, all ten columns.
FirstFiveColumns == <<0, 1, 2, 3, 4>>
AllColumns == <<0, 1, 2, 3, 4, 5, 6, 7, 8, 9>>
TwoRows == <<0, 7>>
TenRows == <<0, 1, 2, 3, 4, 5, 6, 7, 8, 9>>
IdLayouts ==
    {[cols |-> FirstFiveColumns, rows |-> TwoRows, levels |-> FillPlain, sparse |-> FALSE],
     [cols |-> IdColumns, rows |-> TwoRows, levels |-> FillPlain, sparse |-> FALSE],
     [cols |-> AllColumns, rows |-> <<7>>, levels |-> FillPlain, sparse |-> FALSE],
     [cols |-> IdColumns, rows |-> <<7>>, levels |-> FillEdge, sparse |-> FALSE],
     [cols |-> FirstFiveColumns, rows |-> TenRows, levels |-> FillPlain, sparse |-> TRUE],
     [cols |-> IdColumns, rows |-> TenRows, levels |-> FillPlain, sparse |-> TRUE]}

\* The fills of the bubbles of an ID block; of a sparse block, at most one bubble is
\* not blank.
IdFills(lay) ==
    LET cells == Ids(lay.cols) \X Ids(lay.rows)
    IN  IF lay.sparse
        THEN {[cr \in cells |-> 5]} \cup
             {[cr \in cells |-> IF cr = marked THEN 80 ELSE 5] : marked \in cells}
        ELSE [cells -> lay.levels]

(***************************************************************************)
(* Initial states.                                                         *)
(***************************************************************************)
\* detect_bubble_edges is not running.
\* process_image has decoded nothing.
NoResults == [exam_model |-> None, id_number |-> None, answers |-> <<>>]

\* The database is empty and no request is running.
InitNoDb ==
    /\ students = <<>>
    /\ archived_students = <<>>
    /\ blacklist = <<>>
    /\ runs = <<>>

\* correct_exam has not been called
NoProcessing == [present |-> FALSE, grade_data |-> <<>>]
NoScore == [called |-> FALSE]

InitNoScore ==
    /\ student_result = NoProcessing
    /\ exam_result = NoProcessing
    /\ final_degree = 0
    /\ student_answers = <<>>
    /\ correct_answers = <<>>
    /\ score_result = NoScore

InitNoRest ==
    /\ results = NoResults
    /\ InitNoDb
    /\ InitNoScore

InitNoTools ==
    /\ roi_gray = <<>>
    /\ roi_mask = <<>>
    /\ thresh = <<>>
    /\ thresh_adapt = <<>>
    /\ fill_percent = [num |-> 0, den |-> 1]
    /\ bubble_coords = <<>>
    /\ is_id = FALSE
    /\ columns = <<>>
    /\ col_idx = 0
    /\ row_labels = <<>>
    /\ grid = {}
    /\ InitNoRest

InitNoDetect ==
    /\ InitNoTools
    /\ blurred = <<>>
    /\ questions = <<>>
    /\ slot = 0
    /\ reference_bubbles = <<>>
    /\ target_area = 0
    /\ bubble_data = <<>>
    /\ failed_coords = <<>>
    /\ attempted = <<>>
    /\ best_contour = [found |-> FALSE, area |-> 0, circularity |-> 0]
    /\ best_circularity = 0

InitLocals ==
    /\ current_markers = NoneList
    /\ ref_marker_points = <<>>
    /\ cur_marker_points = <<>>
    /\ aligned = NotCalled
    /\ grade_data = NotCalled
    /\ result = NotReturned

InitNoSheet ==
    /\ coordinates = <<>>
    /\ reference_data = ReferenceData(GoodMarkerIds, <<>>, {})
    /\ id_reference_data = NoIdReference
    /\ exam_model_reference_data = NoExamReference
    /\ image = NoImage

\* calculate_grade on the fills of answer bubbles.
InitGradeAnswers ==
    /\ bubbles_data \in {List(d) : d \in UNION ({Fills(n, FillEdge) : n \in 0..MaxBubbles}
                                               \cup {Fills(n, FillMarked) : n \in 0..MaxBubbles}
                                               \cup {Fills(n, FillPlain) : n \in 0..MaxCoords})}
    /\ id_bubbles_data = NoneList
    /\ exam_model_bubbles_data = NoneList

\* calculate_grade on the fills of an ID block.
InitGradeIds ==
    /\ bubbles_data = List(<<>>)
    /\ id_bubbles_data \in
           {NoneList, List(<<>>)} \cup
           UNION {{List([i \in 1..Len(IdBubbles(lay.cols, lay.rows)) |->
                            LET b == IdBubbles(lay.cols, lay.rows)[i]
                            IN  [column |-> b.column, number |-> b.number,
                                 fill_percent |-> f[<<b.column, b.number>>]]]) :
                      f \in IdFills(lay)} : lay \in IdLayouts}
    /\ exam_model_bubbles_data = NoneList

\* calculate_grade on the fills of an exam-model block.
InitGradeExams ==
    /\ bubbles_data = List(<<>>)
    /\ id_bubbles_data = NoneList
    /\ exam_model_bubbles_data \in
           {NoneList} \cup {List(d) : d \in UNION {Fills(k, FillEdge) : k \in 0..MaxExamBubbles}}

InitGrade ==
    /\ pc = "grade"
    /\ InitNoDetect
    /\ InitLocals
    /\ InitNoSheet
    /\ (InitGradeAnswers \/ InitGradeIds \/ InitGradeExams)

InitSheetLocals ==
    /\ pc = "start"
    /\ InitNoDetect
    /\ InitLocals
    /\ bubbles_data = NoneList
    /\ id_bubbles_data = NoneList
    /\ exam_model_bubbles_data = NoneList

\* An unreadable photograph, and one without any marker.
InitUnusable ==
    /\ coordinates = OneQuestion
    /\ reference_data = ReferenceData(GoodMarkerIds, coordinates, {})
    /\ id_reference_data = NoIdReference
    /\ exam_model_reference_data = NoExamReference
    /\ image \in {NoImage, Image(<<>>, <<>>, AnsweredA, <<>>, <<>>)}

\* Every marker list of the reference layout against every marker list of the photograph.
InitMarkers ==
    /\ coordinates = OneQuestion
    /\ reference_data \in {ReferenceData(ids, coordinates, {}) : ids \in MarkerIdLists \ {<<>>}}
    /\ id_reference_data = NoIdReference
    /\ exam_model_reference_data = NoExamReference
    /\ image \in {Image(ids, ids, AnsweredA, <<>>, <<>>) : ids \in MarkerIdLists}

\* Layouts saved after failed detections, on sheets of blank and filled bubbles.
InitLayouts ==
    /\ coordinates \in {Coordinates(n) : n \in 1..MaxCoords}
    /\ reference_data \in
           {ReferenceData(GoodMarkerIds, coordinates, failed) :
                failed \in {f \in SUBSET Ids(coordinates) : Cardinality(f) <= MaxFailed}}
    /\ id_reference_data = NoIdReference
    /\ exam_model_reference_data = NoExamReference
    /\ image \in {Image(GoodMarkerIds, GoodMarkerIds, fill, <<>>, <<>>) :
                    fill \in [Ids(coordinates) -> FillPlain]}

\* Sheets with an ID block.
InitIds ==
    /\ coordinates = OneQuestion
    /\ reference_data = ReferenceData(GoodMarkerIds, coordinates, {})
    /\ exam_model_reference_data = NoExamReference
    /\ \E lay \in {l \in IdLayouts : ~l.sparse} :
          /\ id_reference_data = IdReference(lay.cols, lay.rows)
          /\ image \in {Image(GoodMarkerIds, GoodMarkerIds, AnsweredA, id_fill, <<>>) :
                          id_fill \in IdFills(lay)}

\* Sheets with an exam-model block of stored or of marker-based bubbles.
AlignedMarkerIds == {<<>>, <<0>>, <<0, 1>>, <<1, 2, 0>>}
InitExams ==
    /\ coordinates = OneQuestion
    /\ reference_data = ReferenceData(GoodMarkerIds, coordinates, {})
    /\ id_reference_data = NoIdReference
    /\ \E k \in 0..MaxExamBubbles, aruco \in BOOLEAN :
          /\ exam_model_reference_data = ExamReference(k, aruco)
          /\ image \in {Image(GoodMarkerIds, aligned_ids, AnsweredA, <<>>, exam_fill) :
                          aligned_ids \in
                              IF aruco /\ k > 0 THEN AlignedMarkerIds ELSE {GoodMarkerIds},
                          exam_fill \in
                              [1..(IF k < ArucoExamLetters THEN ArucoExamLetters ELSE k) -> FillPlain]}

\* Markers printed at the corners of the sheet: where the reference layout has
\* the center of each id.
PlacedIds == 0..3
ReferencePlaces == [id \in PlacedIds |-> <<100 + 400 * (id % 2), 100 + 300 * (id \div 2)>>]
\* A photograph taken 10 px to the right and 5 px up, and one taken at an angle,
\* where the far corner does not follow the other three.
Shifted == [id \in PlacedIds |-> <<ReferencePlaces[id][1] + 10, ReferencePlaces[id][2] - 5>>]
Skewed == [Shifted EXCEPT ![3] = <<518, 401>>]

\* The markers of the ids, in the order of the list, each at its place.
Placed(places, ids) == [k \in 1..Len(ids) |-> [id |-> ids[k], center |-> places[ids[k]]]]

\* The marker lists a detector may return: two ids or more, no id twice, any order.
MarkerOrders ==
    {ids \in UNION {[1..n -> PlacedIds] : n \in 2..Cardinality(PlacedIds)} :
        \A i, j \in 1..Len(ids) : i # j => ids[i] # ids[j]}

\* Every order of the reference markers against every order of the markers found.
InitPlaced ==
    /\ coordinates = OneQuestion
    /\ id_reference_data = NoIdReference
    /\ exam_model_reference_data = NoExamReference
    /\ \E ref_ids \in MarkerOrders, cur_ids \in MarkerOrders, photograph \in {Shifted, Skewed} :
          /\ reference_data =
                 [ReferenceData(GoodMarkerIds, coordinates, {})
                     EXCEPT !.aruco_markers = Placed(ReferencePlaces, ref_ids)]
          /\ image =
                 [Image(<<>>, <<>>, AnsweredA, <<>>, <<>>)
                     EXCEPT !.markers = Placed(photograph, cur_ids)]

InitSheet == InitSheetLocals /\ (InitUnusable \/ InitMarkers)
InitRegister == InitSheetLocals /\ (InitUnusable \/ InitPlaced)
InitPipeline == InitSheetLocals /\ (InitUnusable \/ InitLayouts \/ InitIds \/ InitExams)

(***************************************************************************)
(* Specifications.                                                         *)
(***************************************************************************)
NextGrade == CalculateGrade
NextSheet == process_bubble_sheet

\* calculate_grade applied to every input of InitGrade
SpecGrade == InitGrade /\ [][NextGrade]_vars
\* The ID list of the caller with its bubbles put in the order of their numbers.
SortedInPlace(id_data) ==
    IF Truthy(id_data) THEN List(SortByNumber(id_data.items)) ELSE id_data

\* lines 106-107: column_bubbles is a list the comprehension builds, and sort()
\* orders that list; the list the caller passed is left as it was.
ArgumentAfter(id_data) == id_data

\* A second call calculate_grade(bubbles_data, id_bubbles_data, exam_model_data)
\* with the arguments of the first.
CalculateGradeAgain ==
    /\ pc = "graded"
    /\ grade_data' = calculate_grade(bubbles_data.items, id_bubbles_data, exam_model_bubbles_data)
    /\ id_bubbles_data' = ArgumentAfter(id_bubbles_data)
    /\ pc' = "graded again"
    /\ UNCHANGED <<coordinates, reference_data, id_reference_data, exam_model_reference_data,
                   image, current_markers, ref_marker_points, cur_marker_points, aligned,
                   bubbles_data, exam_model_bubbles_data, result>>
    /\ UNCHANGED detectVars
    /\ UNCHANGED toolVars

NextGradeTwice == CalculateGrade \/ CalculateGradeAgain

\* calculate_grade applied twice to every input of InitGrade
SpecGradeTwice == InitGrade /\ [][NextGradeTwice]_vars
\* process_bubble_sheet on every pair of marker lists
SpecSheet == InitSheet /\ [][NextSheet]_vars
\* process_bubble_sheet on photographs of the placed markers
SpecRegister == InitRegister /\ [][NextSheet]_vars
\* process_bubble_sheet on saved layouts and photographed sheets
SpecPipeline == InitPipeline /\ [][NextSheet]_vars

(***************************************************************************)
(* bubble_edge_detector.py: detect_bubble_edges and detect_bubble_fallback. *)
(*                                                                         *)
(* What OpenCV finds on the ROI of a coordinate is read from `blurred`:    *)
(* the candidate contour of every detection strategy (its area and its     *)
(* circularity, in hundredths), whether matchTemplate raises, whether the  *)
(* rescaled contour misses the target area, and the fill measured.         *)
(***************************************************************************)
NoContour == [found |-> FALSE, area |-> 0, circularity |-> 0]
Contour(area, circularity) == [found |-> TRUE, area |-> area, circularity |-> circularity]

\* lines 21-35
is_b1_bubble(bubble_id) == bubble_id.b = 1
is_b5_bubble(bubble_id) == bubble_id.b = 5
is_b4_bubble(bubble_id) == bubble_id.b = 4
get_bubble_number(bubble_id) == bubble_id.b

\* lines 307-312: `questions` keeps the question numbers in the order of their
\* first coordinate; the place of the first coordinate of the question of coords[i].
FirstOfQuestion(coords, i) ==
    CHOOSE j \in 1..i : coords[j].q = coords[i].q /\ \A k \in 1..(j - 1) : coords[k].q # coords[i].q

\* lines 316-318, 346-349: coords[j] is visited before coords[i]: its question comes
\* first, or it is of the same question and q_coords.sort(key=get_bubble_number), a
\* stable sort, puts it first.
VisitedBefore(coords, j, i) ==
    \/ FirstOfQuestion(coords, j) < FirstOfQuestion(coords, i)
    \/ /\ coords[j].q = coords[i].q
       /\ \/ get_bubble_number(coords[j]) < get_bubble_number(coords[i])
          \/ get_bubble_number(coords[j]) = get_bubble_number(coords[i]) /\ j < i

\* The lists of `questions` one after the other: the coordinates in the order both
\* loops visit them.
GroupByQuestion(coords) ==
    [k \in 1..Len(coords) |->
        coords[CHOOSE i \in 1..Len(coords) :
                   Cardinality({j \in 1..Len(coords) : VisitedBefore(coords, j, i)}) = k - 1]]

\* The coordinate the running loop is at, and its ROI.
coord == questions[slot]
roi == blurred[coord]

\* a * target <= area <= b * target, a and b in tenths
InBand(area, target, a, b) == a * target <= 10 * area /\ 10 * area <= b * target

\* line 102: the default target area and the default method list.
DefaultTargetArea == 200
ContourOnly == <<"contour">>
methods == <<"contour", "hough", "template">>

\* The target_area argument of the running detect_bubble_fallback call (lines 329, 365).
FallbackTarget == IF pc = "first_fallback" THEN DefaultTargetArea ELSE target_area

\* lines 271-283
median(areas) ==
    LET n == Len(areas)
        sorted == [k \in 1..n |->
                      areas[CHOOSE i \in 1..n :
                                Cardinality({j \in 1..n : \/ areas[j] < areas[i]
                                                          \/ areas[j] = areas[i] /\ j < i}) = k - 1]]
    IN  IF n % 2 = 1 THEN sorted[(n + 1) \div 2]
        ELSE (sorted[n \div 2] + sorted[(n \div 2) + 1]) \div 2
AlwaysDefaultArea(bubbles) == DefaultTargetArea
get_average_bubble_area(bubbles) ==
    IF Len(bubbles) = 0 THEN DefaultTargetArea ELSE median(bubbles)

\* lines 467-472
FailDropped(c, error) == failed_coords
Fail(c, error) == Append(failed_coords, [id |-> c, error |-> error])

\* The main loop without the size check of lines 417-420.
RecordedUnchecked(contour, circularity) ==
    LET area == IF roi.scale_error THEN 2 * target_area ELSE target_area
    IN  IF ~contour.found
        THEN [bubble_data |-> bubble_data,
              failed_coords |-> Fail(coord, "No suitable contour found")]
        ELSE [bubble_data |-> Append(bubble_data,
                                     [id |-> coord, area |-> area, circularity |-> circularity,
                                      fill_percent |-> roi.fill_percent]),
              failed_coords |-> failed_coords]

\* The main loop with a size check that records nothing of the bubble it rejects.
RecordedAbnormalDropped(contour, circularity) ==
    LET area == IF roi.scale_error THEN 2 * target_area ELSE target_area
    IN  IF ~contour.found
        THEN [bubble_data |-> bubble_data,
              failed_coords |-> Fail(coord, "No suitable contour found")]
        ELSE IF ~InBand(area, target_area, 7, 13)
        THEN [bubble_data |-> bubble_data, failed_coords |-> failed_coords]
        ELSE [bubble_data |-> Append(bubble_data,
                                     [id |-> coord, area |-> area, circularity |-> circularity,
                                      fill_percent |-> roi.fill_percent]),
              failed_coords |-> failed_coords]

\* lines 408-460: what the main loop records of coord once its detection has ended.
Recorded(contour, circularity) ==
    LET area == IF roi.scale_error THEN 2 * target_area ELSE target_area
    IN  IF ~contour.found
        THEN [bubble_data |-> bubble_data,
              failed_coords |-> Fail(coord, "No suitable contour found")]
        ELSE IF ~InBand(area, target_area, 7, 13)
        THEN [bubble_data |-> bubble_data,
              failed_coords |-> Fail(coord, "Abnormal bubble size")]
        ELSE [bubble_data |-> Append(bubble_data,
                                     [id |-> coord, area |-> area, circularity |-> circularity,
                                      fill_percent |-> roi.fill_percent]),
              failed_coords |-> failed_coords]

\* lines 319: a B4 or B5 coordinate is skipped by the first pass.
FirstPassSkip ==
    /\ pc = "first" /\ slot <= Len(questions)
    /\ is_b5_bubble(coord) \/ is_b4_bubble(coord)
    /\ slot' = slot + 1
    /\ UNCHANGED <<blurred, questions, reference_bubbles, target_area, bubble_data, failed_coords,
                   attempted, best_contour, best_circularity>>
    /\ UNCHANGED sheetVars
    /\ UNCHANGED toolVars

\* lines 325-326
FirstPassEmpty ==
    /\ pc = "first" /\ slot <= Len(questions)
    /\ ~(is_b5_bubble(coord) \/ is_b4_bubble(coord))
    /\ roi.empty
    /\ slot' = slot + 1
    /\ UNCHANGED <<blurred, questions, reference_bubbles, target_area, bubble_data, failed_coords,
                   attempted, best_contour, best_circularity>>
    /\ UNCHANGED sheetVars
    /\ UNCHANGED toolVars

\* line 329: detect_bubble_fallback(roi) is called; lines 104-107.
FirstPassFallback ==
    /\ pc = "first" /\ slot <= Len(questions)
    /\ ~(is_b5_bubble(coord) \/ is_b4_bubble(coord))
    /\ ~roi.empty
    /\ pc' = "first_fallback"
    /\ attempted' = <<>>
    /\ best_contour' = NoContour
    /\ best_circularity' = 0
    /\ UNCHANGED sheetData
    /\ UNCHANGED toolVars
    /\ UNCHANGED <<blurred, questions, slot, reference_bubbles, target_area, bubble_data, failed_coords>>

\* line 109: `for method in methods` is at this method.
at(method) ==
    /\ pc \in {"first_fallback", "main_fallback"}
    /\ Len(attempted) < Len(methods)
    /\ methods[Len(attempted) + 1] = method

\* One turn of the loop with a candidate in the band a..b of the target area: it is
\* kept if it is rounder than the best so far.
Try(method, candidate, a, b) ==
    /\ attempted' = Append(attempted, method)
    /\ IF /\ candidate.found
          /\ InBand(candidate.area, FallbackTarget, a, b)
          /\ candidate.circularity > best_circularity
       THEN best_contour' = candidate /\ best_circularity' = candidate.circularity
       ELSE UNCHANGED <<best_contour, best_circularity>>
    /\ UNCHANGED sheetData
    /\ UNCHANGED toolVars
    /\ UNCHANGED <<pc, blurred, questions, slot, reference_bubbles, target_area, bubble_data, failed_coords>>

\* lines 110-151
TryContour == at("contour") /\ Try("contour", roi.contour, 5, 15)
\* lines 153-176
TryHough == at("hough") /\ Try("hough", roi.hough, 7, 13)
\* lines 178-208
TryTemplate ==
    at("template") /\ ~roi.template_error /\ Try("template", roi.template, 7, 13)

\* line 188: cv2.matchTemplate raises; the first pass goes on with the next
\* coordinate (lines 339-340), the main loop records the failure (lines 462-472).
TemplateRaises ==
    /\ at("template")
    /\ roi.template_error
    /\ attempted' = Append(attempted, "template")
    /\ slot' = slot + 1
    /\ IF pc = "first_fallback"
       THEN pc' = "first" /\ UNCHANGED failed_coords
       ELSE pc' = "main" /\ failed_coords' = Fail(coord, "cv2.error")
    /\ UNCHANGED <<blurred, questions, reference_bubbles, target_area, bubble_data,
                   best_contour, best_circularity>>
    /\ UNCHANGED sheetData
    /\ UNCHANGED toolVars

\* line 210 and lines 331-338: the fallback returns to the first pass.
FirstPassReturn ==
    /\ pc = "first_fallback"
    /\ Len(attempted) = Len(methods)
    /\ reference_bubbles' =
           IF best_contour.found /\ best_contour.area > 0
           THEN Append(reference_bubbles, best_contour.area)
           ELSE reference_bubbles
    /\ slot' = slot + 1
    /\ pc' = "first"
    /\ UNCHANGED <<blurred, questions, target_area, bubble_data, failed_coords,
                   attempted, best_contour, best_circularity>>
    /\ UNCHANGED sheetData
    /\ UNCHANGED toolVars

\* line 343: the first pass is over.
FirstPassDone ==
    /\ pc = "first" /\ slot > Len(questions)
    /\ target_area' = get_average_bubble_area(reference_bubbles)
    /\ slot' = 1
    /\ pc' = "main"
    /\ attempted' = <<>>
    /\ UNCHANGED <<blurred, questions, reference_bubbles, bubble_data, failed_coords,
                   best_contour, best_circularity>>
    /\ UNCHANGED sheetData
    /\ UNCHANGED toolVars

\* lines 359-360
MainEmpty ==
    /\ pc = "main" /\ slot <= Len(questions)
    /\ roi.empty
    /\ attempted' = <<>>
    /\ failed_coords' = Fail(coord, "Empty ROI")
    /\ slot' = slot + 1
    /\ UNCHANGED <<blurred, questions, reference_bubbles, target_area, bubble_data,
                   best_contour, best_circularity>>
    /\ UNCHANGED sheetVars
    /\ UNCHANGED toolVars

\* lines 366-460: the standard detection of a B1, B2 or B3 bubble.
MainStandard ==
    /\ pc = "main" /\ slot <= Len(questions)
    /\ ~roi.empty
    /\ ~(is_b5_bubble(coord) \/ is_b4_bubble(coord))
    /\ attempted' = <<"standard">>
    /\ LET accepted == /\ roi.standard.found
                       /\ InBand(roi.standard.area, target_area, 5, 15)
                       /\ roi.standard.circularity > 0
           contour == IF accepted THEN roi.standard ELSE NoContour
           circularity == IF accepted THEN roi.standard.circularity ELSE 0
       IN  /\ best_contour' = contour
           /\ best_circularity' = circularity
           /\ bubble_data' = Recorded(contour, circularity).bubble_data
           /\ failed_coords' = Recorded(contour, circularity).failed_coords
    /\ slot' = slot + 1
    /\ UNCHANGED <<blurred, questions, reference_bubbles, target_area>>
    /\ UNCHANGED sheetVars
    /\ UNCHANGED toolVars

\* lines 364-365: detect_bubble_fallback(roi, target_area=target_area) is called.
MainFallback ==
    /\ pc = "main" /\ slot <= Len(questions)
    /\ ~roi.empty
    /\ is_b5_bubble(coord) \/ is_b4_bubble(coord)
    /\ pc' = "main_fallback"
    /\ attempted' = <<>>
    /\ best_contour' = NoContour
    /\ best_circularity' = 0
    /\ UNCHANGED <<blurred, questions, slot, reference_bubbles, target_area, bubble_data, failed_coords>>
    /\ UNCHANGED sheetData
    /\ UNCHANGED toolVars

\* line 210 and lines 408-460: the fallback returns to the main loop.
MainFallbackReturn ==
    /\ pc = "main_fallback"
    /\ Len(attempted) = Len(methods)
    /\ bubble_data' = Recorded(best_contour, best_circularity).bubble_data
    /\ failed_coords' = Recorded(best_contour, best_circularity).failed_coords
    /\ slot' = slot + 1
    /\ pc' = "main"
    /\ UNCHANGED <<blurred, questions, reference_bubbles, target_area,
                   attempted, best_contour, best_circularity>>
    /\ UNCHANGED sheetData
    /\ UNCHANGED toolVars

\* line 474
MainDone ==
    /\ pc = "main" /\ slot > Len(questions)
    /\ pc' = "returned"
    /\ UNCHANGED detectVars
    /\ UNCHANGED sheetData
    /\ UNCHANGED toolVars

detect_bubble_fallback == TryContour \/ TryHough \/ TryTemplate \/ TemplateRaises

detect_bubble_edges ==
    \/ FirstPassSkip \/ FirstPassEmpty \/ FirstPassFallback \/ FirstPassReturn \/ FirstPassDone
    \/ MainEmpty \/ MainStandard \/ MainFallback \/ MainFallbackReturn \/ MainDone
    \/ detect_bubble_fallback

(***************************************************************************)
(* detect_bubble_edges: sheets and initial states.                         *)
(***************************************************************************)
MaxSlots == 5

\* What a strategy finds on a ROI: nothing, a rough or a round bubble, a blot.
Candidates == {NoContour, Contour(200, 60), Contour(240, 90), Contour(500, 90)}

EmptyRoi ==
    [empty |-> TRUE, standard |-> NoContour, contour |-> NoContour, hough |-> NoContour,
     template |-> NoContour, template_error |-> FALSE, scale_error |-> FALSE, fill_percent |-> 0]
\* The ROI of a clean blank bubble.
PlainRoi ==
    [empty |-> FALSE, standard |-> Contour(200, 60), contour |-> Contour(200, 60),
     hough |-> Contour(200, 60), template |-> Contour(200, 60), template_error |-> FALSE,
     scale_error |-> FALSE, fill_percent |-> 5]
\* The ROI of a ragged mark: a contour of the size of a bubble, hardly round.
FaintRoi ==
    [empty |-> FALSE, standard |-> Contour(200, 10), contour |-> Contour(200, 10),
     hough |-> NoContour, template |-> NoContour, template_error |-> FALSE,
     scale_error |-> FALSE, fill_percent |-> 80]
\* The other ROIs: marked bubbles, and blank ones the rescaling of which fails.
Rois ==
    {EmptyRoi, FaintRoi} \cup
    {r \in [empty : {FALSE}, standard : Candidates \ {Contour(240, 90)}, contour : Candidates,
            hough : Candidates, template : Candidates, template_error : BOOLEAN,
            scale_error : BOOLEAN, fill_percent : {5, 80}] :
        /\ r.template_error => r.template = NoContour
        /\ r.scale_error <=> r.fill_percent = 5}

\* Sheets all alike, and clean sheets with one ROI of any kind.
Sheets(ids) ==
    {[id \in ids |-> r] : r \in Rois} \cup
    {[id \in ids |-> IF id = odd THEN r ELSE PlainRoi] : odd \in ids, r \in Rois}

InitDetectLocals ==
    /\ pc = "first"
    /\ InitLocals
    /\ reference_data = ReferenceData(GoodMarkerIds, <<>>, {})
    /\ id_reference_data = NoIdReference
    /\ exam_model_reference_data = NoExamReference
    /\ image = NoImage
    /\ bubbles_data = NoneList
    /\ id_bubbles_data = NoneList
    /\ exam_model_bubbles_data = NoneList
    /\ slot = 1
    /\ reference_bubbles = <<>>
    /\ target_area = 0
    /\ bubble_data = <<>>
    /\ failed_coords = <<>>
    /\ attempted = <<>>
    /\ best_contour = NoContour
    /\ best_circularity = 0

\* ROIs without a bubble (the template matching of which raises), and ROIs of a
\* bubble the rescaling of which fails.
NoBubbleRoi ==
    [empty |-> FALSE, standard |-> NoContour, contour |-> NoContour, hough |-> NoContour,
     template |-> NoContour, template_error |-> TRUE, scale_error |-> FALSE, fill_percent |-> 0]
MisscaledRoi == [PlainRoi EXCEPT !.scale_error = TRUE]

\* Sheets any bubbles of which fail, each in its way.
DamagedSheets(ids) == [ids -> {PlainRoi, EmptyRoi, NoBubbleRoi, MisscaledRoi}]

InitDetect ==
    /\ InitDetectLocals
    /\ InitNoTools
    /\ coordinates \in {Coordinates(n) : n \in 0..MaxSlots}
    /\ questions = GroupByQuestion(coordinates)
    /\ blurred \in Sheets(Ids(coordinates)) \cup DamagedSheets(Ids(coordinates))

NextDetect == detect_bubble_edges

\* A run of detect_bubble_edges over the collected coordinates.
SpecDetect == InitDetect /\ [][NextDetect]_vars

(***************************************************************************)
(* bubble_edge_detector.py: calculate_fill_percentage, and                 *)
(* compare_bubbles.py: process_bubble.                                     *)
(*                                                                         *)
(* An image is the sequence of its pixels, 0..255 each.  The thresholded    *)
(* images are OpenCV's: `thresh` is the ROI cut at the level Otsu's method  *)
(* picks (255 where the pixel is not above it), `thresh_adapt` is 0 or 255  *)
(* pixel by pixel.  A fill percent is kept as the fraction num / den.       *)
(***************************************************************************)
RECURSIVE SumOver(_, _)
SumOver(pixels, n) == IF n = 0 THEN 0 ELSE SumOver(pixels, n - 1) + pixels[n]

\* cv2.countNonZero
countNonZero(pixels) == Cardinality({i \in 1..Len(pixels) : pixels[i] # 0})

\* The thresholded image counted whole, the mask left out.
Unmasked(a, b) == a

\* cv2.bitwise_and of two images of 0 and 255
bitwise_and(a, b) == [i \in 1..Len(a) |-> IF a[i] # 0 /\ b[i] # 0 THEN 255 ELSE 0]

\* cv2.mean(roi_gray, mask=roi_mask)[0] times the number of pixels of the mask
MaskedSum(gray, mask) ==
    SumOver([i \in 1..Len(gray) |-> IF mask[i] # 0 THEN gray[i] ELSE 0], Len(gray))

\* lines 212-240
calculate_fill_percentage(gray, mask, otsu, adapt) ==
    LET mask_pixels == countNonZero(mask)
    IN  IF Len(mask) = 0 \/ Len(gray) = 0 THEN [num |-> 0, den |-> 1]
        ELSE IF mask_pixels = 0
        \* the mean over an empty mask is 0: fill_1 = 100, fill_2 = fill_3 = 0
        THEN [num |-> 4 * 100, den |-> 10]
        ELSE [num |-> 4 * 100 * (255 * mask_pixels - MaskedSum(gray, mask))
                      + 3 * 100 * 255 * countNonZero(bitwise_and(otsu, mask))
                      + 3 * 100 * 255 * countNonZero(bitwise_and(adapt, mask)),
              den |-> 10 * 255 * mask_pixels]

\* compare_bubbles.py lines 316-328
process_bubble(threshold_image, mask) ==
    LET total_pixels == countNonZero(mask)
    IN  IF total_pixels > 0
        THEN [num |-> 100 * countNonZero(bitwise_and(threshold_image, mask)), den |-> total_pixels]
        ELSE [num |-> 0, den |-> 1]

\* fill_percent > threshold, for a fill percent kept as a fraction
Above(fill, threshold) == fill.num > threshold * fill.den

\* compare_bubbles.py lines 51, 88, 113 (calculate_grade) and 331 (process_bubble)
GradeFilled(fill) == Above(fill, FILLING_PERCENT)
\* bubble_edge_detector.py lines 439-440: red for filled
OverlayThreshold == 40
OverlayFilled(fill) == Above(fill, OverlayThreshold)
\* bubble_sheet_reader.py lines 864-868: marked if filled above the threshold
GridThreshold == 30
GridMarked(fill) == Above(fill, GridThreshold)

\* detect_bubble_edges line 432
CalculateFillPercentage ==
    /\ pc = "score"
    /\ pc' = "calculate_fill_percentage"
    /\ fill_percent' = calculate_fill_percentage(roi_gray, roi_mask, thresh, thresh_adapt)
    /\ UNCHANGED <<roi_gray, roi_mask, thresh, thresh_adapt>>
    /\ UNCHANGED <<sheetData, detectVars, gridVars, restVars>>

\* process_bubble on the thresholded image and the mask of the contour
ProcessBubble ==
    /\ pc = "score"
    /\ pc' = "process_bubble"
    /\ fill_percent' = process_bubble(thresh, roi_mask)
    /\ UNCHANGED <<roi_gray, roi_mask, thresh, thresh_adapt>>
    /\ UNCHANGED <<sheetData, detectVars, gridVars, restVars>>

MaxPixels == 3  \* pixels of a ROI

GrayLevels == {0, 100, 255}

Images(levels) == UNION {[1..n -> levels] : n \in 0..MaxPixels}

\* cv2.threshold(..., THRESH_BINARY_INV + THRESH_OTSU) at the level it picked
Otsu(gray, level) == [i \in 1..Len(gray) |-> IF gray[i] > level THEN 0 ELSE 255]

InitFill ==
    /\ pc = "score"
    /\ InitLocals
    /\ InitNoSheet
    /\ bubbles_data = NoneList
    /\ id_bubbles_data = NoneList
    /\ exam_model_bubbles_data = NoneList
    /\ blurred = <<>>
    /\ questions = <<>>
    /\ slot = 0
    /\ reference_bubbles = <<>>
    /\ target_area = 0
    /\ bubble_data = <<>>
    /\ failed_coords = <<>>
    /\ attempted = <<>>
    /\ best_contour = NoContour
    /\ best_circularity = 0
    /\ roi_gray \in Images(GrayLevels)
    /\ roi_mask \in {m \in Images({0, 255}) : Len(m) = Len(roi_gray)}
    /\ thresh \in {Otsu(roi_gray, level) : level \in GrayLevels}
    /\ thresh_adapt \in {t \in Images({0, 255}) : Len(t) = Len(roi_gray)}
    /\ fill_percent = [num |-> 0, den |-> 1]
    /\ bubble_coords = <<>>
    /\ is_id = FALSE
    /\ columns = <<>>
    /\ col_idx = 0
    /\ row_labels = <<>>
    /\ grid = {}
    /\ InitNoRest

NextFill == CalculateFillPercentage \/ ProcessBubble

\* The two fill scorers on every small ROI and mask.
SpecFill == InitFill /\ [][NextFill]_vars

(***************************************************************************)
(* bubble_sheet_reader.py: BubbleSheetReader.analyze_bubbles.              *)
(*                                                                         *)
(* A candidate is its box x, y, w, h and the fill percent `thresh` has in   *)
(* the box.  The clustering is scikit-learn's, on one axis: StandardScaler  *)
(* divides by the standard deviation, NearestNeighbors gives the distance   *)
(* to the nearest other point, DBSCAN links the points not farther apart    *)
(* than eps.  Coordinates are kept doubled, so that centers are integers.   *)
(***************************************************************************)
\* lines 752 and 814: x + w/2 and y + h/2, doubled
CenterX2(b) == 2 * b.x + b.w
CenterY2(b) == 2 * b.y + b.h

Distance(a, b) == IF a < b THEN b - a ELSE a - b

\* lines 762-763, 822-823: the distance of every point to the nearest other point;
\* a point alone has its own distance 0.
NearestDistances(v) ==
    [i \in 1..Len(v) |->
        IF Len(v) = 1 THEN 0
        ELSE CHOOSE d \in {Distance(v[i], v[j]) : j \in (1..Len(v)) \ {i}} :
                 \A j \in (1..Len(v)) \ {i} : d <= Distance(v[i], v[j])]

\* lines 764, 824: ten times np.percentile(d, 90), which interpolates between the
\* two ranks next to 0.9 * (n - 1).
Percentile90x10(d) ==
    LET n == Len(d)
        sorted == [k \in 1..n |->
                      d[CHOOSE i \in 1..n :
                            Cardinality({j \in 1..n : \/ d[j] < d[i]
                                                      \/ d[j] = d[i] /\ j < i}) = k - 1]]
        lo == (9 * (n - 1)) \div 10
        f == (9 * (n - 1)) % 10
    IN  IF f = 0 THEN 10 * sorted[lo + 1]
        ELSE (10 - f) * sorted[lo + 1] + f * sorted[lo + 2]

\* A list written out: every table below is computed once.
Forced(s) == SubSeq(s, 1, Len(s))

\* n * n times the variance of the points: StandardScaler divides by sqrt(q) / n.
Spread(v) ==
    Len(v) * SumOver([i \in 1..Len(v) |-> v[i] * v[i]], Len(v))
        - SumOver(v, Len(v)) * SumOver(v, Len(v))

\* Two scaled points are within eps = max(0.1, 0.5 * percentile) of each other:
\* their distance is at most half the percentile, or at most a tenth of the
\* standard deviation.
CloseTable(v, p10, q) ==
    Forced([i \in 1..Len(v) |-> Forced([j \in 1..Len(v) |->
        \/ 20 * Distance(v[i], v[j]) <= p10
        \/ /\ 10 * Distance(v[i], v[j]) * Len(v) <= 46340
           /\ (10 * Distance(v[i], v[j]) * Len(v)) * (10 * Distance(v[i], v[j]) * Len(v)) <= q])])

\* A point is a core point if it has min_samples points, itself included, within eps.
IsCore(count, min_samples) == count >= min_samples

CoreTable(close, min_samples) ==
    Forced([i \in 1..Len(close) |->
        IsCore(Cardinality({j \in 1..Len(close) : close[i][j]}), min_samples)])

\* The core points that have a core point within eps on their right.
ReachTable(v, close, core) ==
    Forced([a \in 1..Len(v) |-> \E b \in 1..Len(v) : core[b] /\ v[b] > v[a] /\ close[a][b]])

\* Two core points are of one cluster: the core points from the one to the other
\* are each within eps of the next.
Linked(v, core, reach, i, j) ==
    \A a \in 1..Len(v) :
        (/\ core[a]
         /\ (v[i] <= v[a] /\ v[a] < v[j]) \/ (v[j] <= v[a] /\ v[a] < v[i])) => reach[a]

\* The first core point of the cluster of every core point.
FirstTable(v, core, reach) ==
    Forced([i \in 1..Len(v) |->
        IF core[i]
        THEN CHOOSE j \in 1..Len(v) :
                 /\ core[j] /\ Linked(v, core, reach, i, j)
                 /\ \A k \in 1..(j - 1) : ~(core[k] /\ Linked(v, core, reach, i, k))
        ELSE 0])

\* The cluster of every point, named by its first core point: a border point
\* joins the first cluster that has a core point within eps of it, noise has 0.
ClusterTable(close, core, first) ==
    Forced([i \in 1..Len(close) |->
        IF core[i] THEN first[i]
        ELSE IF \E c \in 1..Len(close) : core[c] /\ close[i][c]
        THEN CHOOSE r \in 1..Len(close) :
                 /\ \E c \in 1..Len(close) : core[c] /\ close[i][c] /\ first[c] = r
                 /\ \A c \in 1..Len(close) : (core[c] /\ close[i][c]) => r <= first[c]
        ELSE 0])

\* The labels: clusters are numbered from 0 in the order of their first core
\* point, noise is -1.
LabelTable(cluster) ==
    Forced([i \in 1..Len(cluster) |->
        IF cluster[i] = 0 THEN -1
        ELSE Cardinality({cluster[k] : k \in {m \in 1..Len(cluster) :
                                                 0 < cluster[m] /\ cluster[m] < cluster[i]}})])

ClustersOf(v, close, core, reach) ==
    CHOOSE labels \in {LabelTable(cluster) :
                          cluster \in {ClusterTable(close, core, first) :
                                          first \in {FirstTable(v, core, reach)}}} : TRUE

CoresOf(v, close, min_samples) ==
    CHOOSE labels \in {ClustersOf(v, close, core, reach) :
                          core \in {CoreTable(close, min_samples)},
                          reach \in {ReachTable(v, close, CoreTable(close, min_samples))}} : TRUE

\* lines 755-770 and 818-830: the labels DBSCAN(eps, min_samples) gives the points v
\* after StandardScaler, with eps = max(0.1, 0.5 * the percentile of the distances
\* to the nearest point).
dbscan(v, min_samples) ==
    CHOOSE labels \in {CoresOf(v, close, min_samples) :
                          close \in {CloseTable(v, p10, q) :
                                        p10 \in {Percentile90x10(NearestDistances(v))},
                                        q \in {Spread(v)}}} : TRUE

\* The labels of the clusters, noise left out.
Labels(labels) == {labels[i] : i \in 1..Len(labels)} \ {-1}

\* lines 774-781: the candidates of column col_label, in the order of the list
Column(coords, labels, col_label) ==
    LET kept == SelectSeq([i \in 1..Len(coords) |-> i], LAMBDA i : labels[i] = col_label)
    IN  [k \in 1..Len(kept) |-> coords[kept[k]]]

SumX(col) == SumOver([i \in 1..Len(col) |-> col[i].x], Len(col))

\* lines 789-790: sorted(columns.keys(), key=mean x), a stable sort
SortedColumns(coords, labels) ==
    LET before(a, b) ==
            LET ca == Column(coords, labels, a)
                cb == Column(coords, labels, b)
            IN  \/ SumX(ca) * Len(cb) < SumX(cb) * Len(ca)
                \/ SumX(ca) * Len(cb) = SumX(cb) * Len(ca) /\ a < b
    IN  Forced([k \in 1..Cardinality(Labels(labels)) |->
            Forced(Column(coords, labels,
                          CHOOSE a \in Labels(labels) :
                              Cardinality({b \in Labels(labels) : before(b, a)}) = k - 1))])

\* line 811: col_bubbles.sort(key=lambda b: b[1]), a stable sort
SortByY(col) ==
    Forced([k \in 1..Len(col) |->
        col[CHOOSE i \in 1..Len(col) :
                Cardinality({j \in 1..Len(col) : \/ col[j].y < col[i].y
                                                 \/ col[j].y = col[i].y /\ j < i}) = k - 1]])

\* lines 832-840: the candidates of a row cluster
RowBubbles(labels, row_label) == {i \in 1..Len(labels) : labels[i] = row_label}

\* lines 846-868 without line 847: the first candidate of each row cluster is taken.
CellsOfFirst(col_bubbles, labels, col) ==
    {[row |-> labels[i], col |-> col, fill |-> col_bubbles[i].fill] :
        i \in {j \in 1..Len(col_bubbles) :
                  /\ labels[j] # -1
                  /\ \A k \in RowBubbles(labels, labels[j]) : j <= k
                  /\ col_bubbles[j].fill > GridThreshold}}

\* lines 846-868: the cells of a column: a row cluster of one candidate, filled
\* above the threshold, gives grid[row_idx][col_idx].
Cells(col_bubbles, labels, col) ==
    {[row |-> labels[i], col |-> col, fill |-> col_bubbles[i].fill] :
        i \in {j \in 1..Len(col_bubbles) :
                  /\ labels[j] # -1
                  /\ Cardinality(RowBubbles(labels, labels[j])) = 1
                  /\ col_bubbles[j].fill > GridThreshold}}

\* lines 745-746
AnalyzeNothing ==
    /\ pc = "analyze"
    /\ Len(bubble_coords) = 0
    /\ pc' = "returned None"
    /\ UNCHANGED gridVars
    /\ UNCHANGED <<sheetData, detectVars, fillVars, restVars>>

\* lines 749-802: the columns are found.
ClusterColumns ==
    /\ pc = "analyze"
    /\ Len(bubble_coords) > 0
    /\ \E x_coords \in {Forced([i \in 1..Len(bubble_coords) |-> CenterX2(bubble_coords[i])])} :
          \E column_labels \in {dbscan(x_coords, 3)} :
              /\ is_id \/ Labels(column_labels) # {}
              /\ columns' = SortedColumns(bubble_coords, column_labels)
    /\ pc' = "columns"
    /\ UNCHANGED <<bubble_coords, is_id, col_idx, row_labels, grid>>
    /\ UNCHANGED <<sheetData, detectVars, fillVars, restVars>>

\* lines 801-802: every candidate is noise, the mean of no column is nan and
\* int(nan) raises ValueError.
EstimateRowsRaises ==
    /\ pc = "analyze"
    /\ Len(bubble_coords) > 0
    /\ ~is_id
    /\ \E x_coords \in {Forced([i \in 1..Len(bubble_coords) |-> CenterX2(bubble_coords[i])])} :
          Labels(dbscan(x_coords, 3)) = {}
    /\ pc' = "raised ValueError"
    /\ UNCHANGED gridVars
    /\ UNCHANGED <<sheetData, detectVars, fillVars, restVars>>

\* lines 807-877: one column is processed.
ProcessColumn ==
    /\ pc = "columns"
    /\ col_idx < Len(columns)
    /\ \E col_bubbles \in {SortByY(columns[col_idx + 1])} :
          \E y_coords \in {Forced([i \in 1..Len(col_bubbles) |-> CenterY2(col_bubbles[i])])} :
              \E labels \in {dbscan(y_coords, 1)} :
                  /\ columns' = [columns EXCEPT ![col_idx + 1] = col_bubbles]
                  /\ row_labels' = Append(row_labels, labels)
                  /\ grid' = grid \cup Cells(col_bubbles, labels, col_idx)
    /\ col_idx' = col_idx + 1
    /\ UNCHANGED <<pc, bubble_coords, is_id>>
    /\ UNCHANGED <<sheetData, detectVars, fillVars, restVars>>

\* lines 884-912
AnalyzeReturn ==
    /\ pc = "columns"
    /\ col_idx = Len(columns)
    /\ pc' = "analyzed"
    /\ UNCHANGED gridVars
    /\ UNCHANGED <<sheetData, detectVars, fillVars, restVars>>

analyze_bubbles ==
    AnalyzeNothing \/ ClusterColumns \/ EstimateRowsRaises \/ ProcessColumn \/ AnalyzeReturn

MaxRows == 4     \* rows of a grid of candidates
MaxCols == 3     \* columns of a grid of candidates
MaxScale == 3    \* pixels to the unit of length
LongColumn == 35 \* rows of the one long column

\* The fill of the candidate of a row and a column: all marked, or every other one.
FillPatterns == {"marked", "chequered"}
FillOf(pattern, r, c) == IF pattern = "marked" \/ (r + c) % 2 = 0 THEN 80 ELSE 10

\* The candidate of row r and column c of a grid of uniform spacing.
GridBubble(r, c, scale, pattern) ==
    [x |-> scale * (4 + 12 * c), y |-> scale * (4 + 10 * r), w |-> scale * 6, h |-> scale * 6,
     fill |-> FillOf(pattern, r, c)]

\* find_bubbles lines 583-584: the candidates of a perfect grid, row after row.
PerfectGrid(R, C, scale, pattern) ==
    [k \in 1..(R * C) |-> GridBubble((k - 1) \div C, (k - 1) % C, scale, pattern)]

\* A grid where the detector found one mark twice, the second box a little lower.
NoisyGrid(R, C, scale, pattern, twice) ==
    Append(PerfectGrid(R, C, scale, pattern),
           [PerfectGrid(R, C, scale, pattern)[twice] EXCEPT !.y = @ + 2 * scale])

InitGridLocals ==
    /\ pc = "analyze"
    /\ InitLocals
    /\ InitNoSheet
    /\ bubbles_data = NoneList
    /\ id_bubbles_data = NoneList
    /\ exam_model_bubbles_data = NoneList
    /\ blurred = <<>>
    /\ questions = <<>>
    /\ slot = 0
    /\ reference_bubbles = <<>>
    /\ target_area = 0
    /\ bubble_data = <<>>
    /\ failed_coords = <<>>
    /\ attempted = <<>>
    /\ best_contour = NoContour
    /\ best_circularity = 0
    /\ roi_gray = <<>>
    /\ roi_mask = <<>>
    /\ thresh = <<>>
    /\ thresh_adapt = <<>>
    /\ fill_percent = [num |-> 0, den |-> 1]
    /\ columns = <<>>
    /\ col_idx = 0
    /\ row_labels = <<>>
    /\ grid = {}
    /\ InitNoRest

\* Perfect grids at every scale, a long column, and no candidate at all.
InitPerfect ==
    /\ is_id \in BOOLEAN
    /\ \/ \E R \in 1..MaxRows, C \in 1..MaxCols, scale \in 1..MaxScale, pattern \in FillPatterns :
              bubble_coords = PerfectGrid(R, C, scale, pattern)
       \/ bubble_coords = PerfectGrid(LongColumn, 1, 1, "marked")
       \/ bubble_coords = <<>>

\* Grids with a mark found twice.
InitNoisy ==
    /\ is_id \in BOOLEAN
    /\ \E R \in 1..MaxRows, C \in 1..MaxCols, scale \in 1..MaxScale, pattern \in FillPatterns :
          \E twice \in 1..(R * C) : bubble_coords = NoisyGrid(R, C, scale, pattern, twice)

InitGrid == InitGridLocals /\ (InitPerfect \/ InitNoisy)

NextGrid == analyze_bubbles

\* analyze_bubbles on grids of candidates
SpecGrid == InitGrid /\ [][NextGrid]_vars

(***************************************************************************)
(* BubbleSheetReader.process_image: the decoding of the sections.          *)
(***************************************************************************)
\* bubble_sheet_reader.py lines 17-20, read with .get(key, '?')
ID_KEY(row) == IF row \in 0..9 THEN Digits[row + 1] ELSE "?"
ANSWER_KEY(col) == IF col \in 0..4 THEN Alphabet[col + 1] ELSE "?"
EXAM_MODEL_KEY(i) == IF i \in 0..4 THEN Alphabet[i + 1] ELSE "?"

\* lines 1015-1018: sorted(..., key=lambda x: x[0]), a stable sort
SortByX(coords) ==
    Forced([k \in 1..Len(coords) |->
        coords[CHOOSE i \in 1..Len(coords) :
                   Cardinality({j \in 1..Len(coords) : \/ coords[j].x < coords[i].x
                                                       \/ coords[j].x = coords[i].x /\ j < i}) = k - 1]])

\* line 1029
ExamModelThreshold == 30

\* lines 1021-1031: the places of the marked bubbles in a sorted list
MarkedPlaces(sorted) == {i \in 1..Len(sorted) : sorted[i].fill > ExamModelThreshold}

\* lines 1011-1031: the exam model section
DecodeExamModel ==
    /\ pc = "analyze"
    /\ Len(bubble_coords) > 0
    /\ \E sorted \in {SortByX(bubble_coords)} :
          results' = [results EXCEPT !.exam_model =
                         IF MarkedPlaces(sorted) = {} THEN None
                         ELSE EXAM_MODEL_KEY((CHOOSE i \in MarkedPlaces(sorted) :
                                                 \A j \in MarkedPlaces(sorted) : i <= j) - 1)]
    /\ pc' = "exam model decoded"
    /\ UNCHANGED gridVars
    /\ UNCHANGED <<sheetData, detectVars, fillVars, dbVars, scoreVars>>

\* The rows of the grid and the columns marked in a row, the rows marked in a column
GridRows == {g.row : g \in grid}
ColumnsOfRow(row) == {g.col : g \in {e \in grid : e.row = row}}
RowsOfColumn(col) == {g.row : g \in {e \in grid : e.col = col}}

\* lines 1041-1045, section 0: the columns of a row are visited in the order they
\* were entered, left to right, and each assignment replaces the one before.
DecodeAnswers ==
    /\ pc = "analyzed"
    /\ ~is_id
    /\ results' = [results EXCEPT !.answers =
                      [question_num \in {row + 1 : row \in GridRows} |->
                          ANSWER_KEY(CHOOSE col \in ColumnsOfRow(question_num - 1) :
                                         \A c \in ColumnsOfRow(question_num - 1) : c <= col)]]
    /\ pc' = "answers decoded"
    /\ UNCHANGED gridVars
    /\ UNCHANGED <<sheetData, detectVars, fillVars, dbVars, scoreVars>>

\* lines 1052-1065: the first row, in sorted order, marked in a column is its digit.
DecodeId ==
    /\ pc = "analyzed"
    /\ is_id
    /\ results' = [results EXCEPT !.id_number =
                      IF grid = {} THEN None
                      ELSE [n \in 1..10 |->
                               IF RowsOfColumn(n - 1) = {} THEN "_"
                               ELSE ID_KEY(CHOOSE row \in RowsOfColumn(n - 1) :
                                               \A r \in RowsOfColumn(n - 1) : row <= r)]]
    /\ pc' = "id decoded"
    /\ UNCHANGED gridVars
    /\ UNCHANGED <<sheetData, detectVars, fillVars, dbVars, scoreVars>>

NextReader == analyze_bubbles \/ DecodeExamModel \/ DecodeAnswers \/ DecodeId

\* process_image on the candidates of one section
SpecReader == InitGrid /\ [][NextReader]_vars

\* cv2.threshold with THRESH_OTSU: the pixels at or below t are one class, the
\* others the second; n1 * n2 * (mu1 - mu2)^2 as the fraction [num, den]. A class
\* without pixels gives 0.
BetweenClass(gray, t) ==
    LET n == Len(gray)
        n1 == Cardinality({i \in 1..n : gray[i] <= t})
        s1 == SumOver([i \in 1..n |-> IF gray[i] <= t THEN gray[i] ELSE 0], n)
        s == SumOver(gray, n)
    IN  IF n1 = 0 \/ n1 = n THEN [num |-> 0, den |-> 1]
        ELSE [num |-> (s1 * (n - n1) - (s - s1) * n1) * (s1 * (n - n1) - (s - s1) * n1),
              den |-> n1 * (n - n1)]

\* The level Otsu's method picks: the lowest level of the largest between-class
\* variance, 0 when no level separates two classes.
threshold_otsu(gray) ==
    LET better(a, b) == BetweenClass(gray, a).num * BetweenClass(gray, b).den
                            > BetweenClass(gray, b).num * BetweenClass(gray, a).den
        levels == {0} \cup {gray[i] : i \in 1..Len(gray)}
    IN  CHOOSE t \in levels :
            /\ \A u \in levels : ~better(u, t)
            /\ \A u \in levels : u < t => better(t, u)

\* cv2.getGaussianKernel(11, 2.0) in thousandths
GaussianKernel == <<9, 27, 65, 122, 177, 200, 177, 122, 65, 27, 9>>

\* The pixel k places to the right of pixel i in a ROI of one row, the border
\* pixel repeated outside the ROI (BORDER_REPLICATE).
Replicated(gray, i, k) ==
    IF i + k < 1 THEN gray[1] ELSE IF i + k > Len(gray) THEN gray[Len(gray)] ELSE gray[i + k]

\* The Gaussian mean around pixel i, rounded.
GaussianMean(gray, i) ==
    (SumOver([k \in 1..11 |-> GaussianKernel[k] * Replicated(gray, i, k - 6)], 11) + 500) \div 1000

\* cv2.adaptiveThreshold(roi_gray, 255, ADAPTIVE_THRESH_GAUSSIAN_C, THRESH_BINARY_INV,
\* 11, 2): a pixel is set when it is at least 2 below the mean of its block.
adaptiveThreshold(gray) ==
    [i \in 1..Len(gray) |-> IF gray[i] <= GaussianMean(gray, i) - 2 THEN 255 ELSE 0]

\* The ROI with pixel i darkened to level.
Darkened(gray, i, level) == [gray EXCEPT ![i] = level]

DarkenLevels == {0, 100, 150}

\* A pixel inside the mask is darkened and the fill percent is computed again.
Darken ==
    /\ pc = "calculate_fill_percentage"
    /\ \E i \in 1..Len(roi_gray) : \E level \in DarkenLevels :
          /\ roi_mask[i] # 0
          /\ level < roi_gray[i]
          /\ roi_gray' = Darkened(roi_gray, i, level)
    /\ thresh' = Otsu(roi_gray', threshold_otsu(roi_gray'))
    /\ thresh_adapt' = adaptiveThreshold(roi_gray')
    /\ fill_percent' = calculate_fill_percentage(roi_gray', roi_mask, thresh', thresh_adapt')
    /\ UNCHANGED <<pc, roi_mask>>
    /\ UNCHANGED <<sheetData, detectVars, gridVars, restVars>>

\* Every small ROI with the images the two thresholdings compute from it.
InitDarken ==
    /\ pc = "score"
    /\ InitLocals
    /\ InitNoSheet
    /\ bubbles_data = NoneList
    /\ id_bubbles_data = NoneList
    /\ exam_model_bubbles_data = NoneList
    /\ blurred = <<>>
    /\ questions = <<>>
    /\ slot = 0
    /\ reference_bubbles = <<>>
    /\ target_area = 0
    /\ bubble_data = <<>>
    /\ failed_coords = <<>>
    /\ attempted = <<>>
    /\ best_contour = NoContour
    /\ best_circularity = 0
    /\ roi_gray \in Images(DarkenLevels)
    /\ roi_mask \in {m \in Images({0, 255}) : Len(m) = Len(roi_gray)}
    /\ thresh = Otsu(roi_gray, threshold_otsu(roi_gray))
    /\ thresh_adapt = adaptiveThreshold(roi_gray)
    /\ fill_percent = [num |-> 0, den |-> 1]
    /\ bubble_coords = <<>>
    /\ is_id = FALSE
    /\ columns = <<>>
    /\ col_idx = 0
    /\ row_labels = <<>>
    /\ grid = {}
    /\ InitNoRest

NextDarken == CalculateFillPercentage \/ Darken

\* calculate_fill_percentage on a ROI and on the same ROI darkened
SpecDarken == InitDarken /\ [][NextDarken]_vars

(***************************************************************************)
(* app/routes/archive.py: archive_unpaid_students.                         *)
(***************************************************************************)
MaxStudents == 2   \* students in the collection
MaxRuns == 2       \* requests running archive_unpaid_students

StudentIds == 1..MaxStudents
Runs == 1..MaxRuns

\* get_month_key(date), a month named by its age in months: 0 is the month of today.
get_month_key(age) == age
current_month == get_month_key(0)
last_month == get_month_key(1)

\* The months a student has paid for: none, one older month, two older months,
\* last month and older ones, this month and older ones.
PaymentHistories == {{}, {2}, {2, 3}, {1, 2, 3}, {0, 2, 3}}

\* A document of the students collection.
Student(monthsales) ==
    [monthsales |-> monthsales, months_without_payment |-> 0, archived |-> FALSE]

\* student_collection.find(): the documents of the collection as the cursor
\* delivers them, each with its _id.
RECURSIVE Find(_, _)
Find(collection, ids) ==
    IF ids = {} THEN <<>>
    ELSE LET id == CHOOSE i \in ids : \A j \in ids : i <= j
         IN  <<[_id |-> id,
                monthsales |-> collection[id].monthsales,
                months_without_payment |-> collection[id].months_without_payment,
                archived |-> collection[id].archived]>> \o Find(collection, ids \ {id})

\* lines 24-33
MonthsWithoutPayment(monthsales) ==
    IF current_month \in monthsales THEN 0
    ELSE IF last_month \in monthsales THEN 1
    ELSE 2

\* lines 43-48: ArchivedStudentModel(**student).dict(): the fields of the model,
\* the _id of the student kept as the field id, a new _id given on insertion.
ArchivedStudent(student) ==
    [id |-> student._id,
     monthsales |-> student.monthsales,
     months_without_payment |-> student.months_without_payment,
     archive_reason |-> "Unpaid for 2 consecutive months"]

\* delete_one({"_id": student_id})
DeleteOne(collection, id) == [i \in (DOMAIN collection) \ {id} |-> collection[i]]

\* lines 11-15: a run starts and its cursor reads the collection.
StartRun(r) ==
    /\ pc = "db"
    /\ runs[r].pc = "idle"
    /\ runs' = [runs EXCEPT ![r] = [pc |-> "loop", cursor |-> Find(students, DOMAIN students),
                                    student |-> None]]
    /\ UNCHANGED <<students, archived_students, blacklist>>
    /\ UNCHANGED <<sheetVars, detectVars, fillVars, gridVars, results, scoreVars>>

\* lines 15-22: a student with fewer than 2 months of payment history is skipped.
SkipStudent(r) ==
    /\ pc = "db"
    /\ runs[r].pc = "loop"
    /\ runs[r].cursor # <<>>
    /\ Cardinality(Head(runs[r].cursor).monthsales) < 2
    /\ runs' = [runs EXCEPT ![r].cursor = Tail(@)]
    /\ UNCHANGED <<students, archived_students, blacklist>>
    /\ UNCHANGED <<sheetVars, detectVars, fillVars, gridVars, results, scoreVars>>

\* lines 15-39: the months without payment are counted and written to the
\* document of the student, if the collection still holds it.
UpdateStudent(r) ==
    /\ pc = "db"
    /\ runs[r].pc = "loop"
    /\ runs[r].cursor # <<>>
    /\ Cardinality(Head(runs[r].cursor).monthsales) >= 2
    /\ LET student == Head(runs[r].cursor)
       IN  /\ runs' = [runs EXCEPT ![r] = [pc |-> "updated", cursor |-> Tail(@.cursor),
                                           student |-> student]]
           /\ students' = IF student._id \in DOMAIN students
                          THEN [students EXCEPT ![student._id].months_without_payment =
                                                    MonthsWithoutPayment(student.monthsales)]
                          ELSE students
    /\ UNCHANGED <<archived_students, blacklist>>
    /\ UNCHANGED <<sheetVars, detectVars, fillVars, gridVars, results, scoreVars>>

\* line 42, the test fails: the student stays.
KeepStudent(r) ==
    /\ pc = "db"
    /\ runs[r].pc = "updated"
    /\ ~(MonthsWithoutPayment(runs[r].student.monthsales) >= 2 /\ ~runs[r].student.archived)
    /\ runs' = [runs EXCEPT ![r].pc = "loop"]
    /\ UNCHANGED <<students, archived_students, blacklist>>
    /\ UNCHANGED <<sheetVars, detectVars, fillVars, gridVars, results, scoreVars>>

\* lines 42-48: the student is inserted into the archive.
InsertArchived(r) ==
    /\ pc = "db"
    /\ runs[r].pc = "updated"
    /\ MonthsWithoutPayment(runs[r].student.monthsales) >= 2
    /\ ~runs[r].student.archived
    /\ archived_students' = Append(archived_students, ArchivedStudent(runs[r].student))
    /\ runs' = [runs EXCEPT ![r].pc = "inserted"]
    /\ UNCHANGED <<students, blacklist>>
    /\ UNCHANGED <<sheetVars, detectVars, fillVars, gridVars, results, scoreVars>>

\* lines 50-51: the student is deleted from the students collection.
DeleteStudent(r) ==
    /\ pc = "db"
    /\ runs[r].pc = "inserted"
    /\ students' = IF runs[r].student._id \in DOMAIN students
                   THEN DeleteOne(students, runs[r].student._id)
                   ELSE students
    /\ runs' = [runs EXCEPT ![r].pc = "loop"]
    /\ UNCHANGED <<archived_students, blacklist>>
    /\ UNCHANGED <<sheetVars, detectVars, fillVars, gridVars, results, scoreVars>>

\* line 15: the cursor is exhausted and the run returns.
FinishRun(r) ==
    /\ pc = "db"
    /\ runs[r].pc = "loop"
    /\ runs[r].cursor = <<>>
    /\ runs' = [runs EXCEPT ![r].pc = "done"]
    /\ UNCHANGED <<students, archived_students, blacklist>>
    /\ UNCHANGED <<sheetVars, detectVars, fillVars, gridVars, results, scoreVars>>

\* One step of one run; the runs take turns at every await.
archive_unpaid_students ==
    \E r \in Runs :
        \/ StartRun(r) \/ SkipStudent(r) \/ UpdateStudent(r) \/ KeepStudent(r)
        \/ InsertArchived(r) \/ DeleteStudent(r) \/ FinishRun(r)

\* Nothing of the sheet pipeline, the detector, the fill scorer or the reader has run.
InitPipelineIdle ==
    /\ InitLocals
    /\ InitNoSheet
    /\ bubbles_data = NoneList
    /\ id_bubbles_data = NoneList
    /\ exam_model_bubbles_data = NoneList
    /\ blurred = <<>>
    /\ questions = <<>>
    /\ slot = 0
    /\ reference_bubbles = <<>>
    /\ target_area = 0
    /\ bubble_data = <<>>
    /\ failed_coords = <<>>
    /\ attempted = <<>>
    /\ best_contour = NoContour
    /\ best_circularity = 0
    /\ roi_gray = <<>>
    /\ roi_mask = <<>>
    /\ thresh = <<>>
    /\ thresh_adapt = <<>>
    /\ fill_percent = [num |-> 0, den |-> 1]
    /\ bubble_coords = <<>>
    /\ is_id = FALSE
    /\ columns = <<>>
    /\ col_idx = 0
    /\ row_labels = <<>>
    /\ grid = {}
    /\ results = NoResults

\* Nothing but the database is in use.
InitDbLocals ==
    /\ pc = "db"
    /\ InitPipelineIdle
    /\ InitNoScore

\* Every collection of up to MaxStudents active students, nothing archived, and
\* one GET /students request per run about to call archive_unpaid_students.
InitArchive ==
    /\ InitDbLocals
    /\ \E n \in 0..MaxStudents :
          students \in [1..n -> {Student(monthsales) : monthsales \in PaymentHistories}]
    /\ archived_students = <<>>
    /\ blacklist = <<>>
    /\ runs = [r \in Runs |-> [pc |-> "idle", cursor |-> <<>>, student |-> None]]

NextArchive == archive_unpaid_students

\* Concurrent runs of archive_unpaid_students
SpecArchive == InitArchive /\ [][NextArchive]_vars

(***************************************************************************)
(* app/routes/blacklist.py: add_student_to_blacklist and                   *)
(* remove_student_from_blacklist.                                          *)
(***************************************************************************)
\* The _id the database gives a new document of a collection.
NewId(collection) ==
    CHOOSE i \in 1..(Cardinality(DOMAIN collection) + 1) : i \notin DOMAIN collection

\* lines 40-65: the blacklist entry, with all the data of the student.
BlacklistStudent(student, student_object_id, blacklist_reason) ==
    [monthsales |-> student.monthsales,
     months_without_payment |-> student.months_without_payment,
     blacklist_reason |-> blacklist_reason,
     original_student_object_id |-> student_object_id]

\* The entries of the blacklist made from a student.
BlacklistedAs(collection, student_object_id) ==
    {b \in DOMAIN collection : collection[b].original_student_object_id = student_object_id}

\* lines 13-81: POST /blacklist/add-student
add_student_to_blacklist ==
    \E student_object_id \in StudentIds, blacklist_reason \in {"behaviour"} :
        /\ pc \in {"db", "added", "removed", "404", "400"}
        /\ runs = <<>>
        /\ IF student_object_id \notin DOMAIN students
           THEN /\ pc' = "404"
                /\ UNCHANGED <<students, blacklist>>
           ELSE IF BlacklistedAs(blacklist, student_object_id) # {}
           THEN /\ pc' = "400"
                /\ UNCHANGED <<students, blacklist>>
           ELSE /\ pc' = "added"
                /\ blacklist' = [b \in (DOMAIN blacklist) \cup {NewId(blacklist)} |->
                                    IF b \in DOMAIN blacklist THEN blacklist[b]
                                    ELSE BlacklistStudent(students[student_object_id],
                                                          student_object_id, blacklist_reason)]
                /\ students' = DeleteOne(students, student_object_id)
        /\ UNCHANGED <<archived_students, runs>>
        /\ UNCHANGED <<sheetData, detectVars, fillVars, gridVars, results, scoreVars>>

\* lines 85-115: DELETE /blacklist/remove-student/{blacklist_id}
remove_student_from_blacklist ==
    \E blacklist_id \in StudentIds :
        /\ pc \in {"db", "added", "removed", "404", "400"}
        /\ runs = <<>>
        /\ IF blacklist_id \notin DOMAIN blacklist
           THEN /\ pc' = "404"
                /\ UNCHANGED blacklist
           ELSE /\ pc' = "removed"
                /\ blacklist' = DeleteOne(blacklist, blacklist_id)
        /\ UNCHANGED <<students, archived_students, runs>>
        /\ UNCHANGED <<sheetData, detectVars, fillVars, gridVars, results, scoreVars>>

\* MaxStudents active students; one of them may have an entry in the blacklist
\* as well (two requests added the student together).
InitBlacklist ==
    /\ InitDbLocals
    /\ students \in [StudentIds -> {Student(monthsales) : monthsales \in PaymentHistories}]
    /\ archived_students = <<>>
    /\ blacklist \in {<<>>, <<BlacklistStudent(students[1], 1, "behaviour")>>}
    /\ runs = <<>>

NextBlacklist == add_student_to_blacklist \/ remove_student_from_blacklist

\* Requests to the blacklist routes, one after the other
SpecBlacklist == InitBlacklist /\ [][NextBlacklist]_vars

(***************************************************************************)
(* Properties: registration (SpecSheet).                                   *)
(***************************************************************************)
\* The marker ids present in the reference layout and in the photograph.
CommonIds ==
    {reference_data.aruco_markers[i].id : i \in 1..Len(reference_data.aruco_markers)}
        \cap {image.markers[i].id : i \in 1..Len(image.markers)}

\* C1: whenever fewer than 3 distinct marker ids are present in both marker lists,
\* compare_with_reference raises an error and returns no transform and no aligned
\* image, also when an id occurs more than once in a list.
C1_FewCommonIdsFail ==
    (aligned.called /\ Cardinality(CommonIds) < 3) => aligned.raised

\* A sheet-level marker failure: no marker detected, or fewer than 3 ids matched.
MarkerFailure ==
    image.loaded /\ (Len(image.markers) = 0 \/ Cardinality(CommonIds) < 3)

\* C2: after a sheet-level marker failure process_bubble_sheet returns one explicit
\* failure: success is False, there is a message, results, visualization_image and
\* every output path are None, and no grade data was produced.
C2_MarkerFailureNoPartialResult ==
    (pc = "done" /\ MarkerFailure) =>
        /\ ~result.success
        /\ Len(result.message) > 0
        /\ result.results.is_none
        /\ result.visualization_image = None
        /\ result.csv_path.is_none
        /\ result.json_path.is_none
        /\ result.visualization_path.is_none
        /\ grade_data = NotCalled

(***************************************************************************)
(* Properties: the answer decoder (SpecGrade).                             *)
(***************************************************************************)
\* The options (0..4) of question q whose fill is above the threshold.
FilledOptions(q) ==
    {i \in 0..4 : bubbles_data.items[5 * (q - 1) + i + 1].fill_percent > FILLING_PERCENT}

\* C3: for every question, the answer is null when no option has fill > T, the letter
\* chr('A' + i) when exactly one option, at index i, has fill > T, and MULTIPLE when
\* more than one option has.
C3_AnswerPerQuestion ==
    pc = "graded" =>
        /\ Len(grade_data.answers) = Len(bubbles_data.items) \div 5
        /\ \A q \in 1..(Len(bubbles_data.items) \div 5) :
              LET answer == grade_data.answers[q].answer
              IN  /\ FilledOptions(q) = {} => answer = None
                  /\ \A i \in 0..4 : FilledOptions(q) = {i} => answer = Alphabet[i + 1]
                  /\ Cardinality(FilledOptions(q)) > 1 => answer = "multiple"

\* C3, its case: the fills [5,5,5,72,5] are decoded to 'D'.
C3_Witness ==
    /\ pc = "graded"
    /\ bubbles_data.items = [i \in 1..5 |-> [fill_percent |-> IF i = 4 THEN 72 ELSE 5]]
    /\ grade_data.answers[1].answer = "D"

\* The fills of a group lie at the threshold or below it, one of them on it.
AtThreshold(fills) ==
    /\ \A i \in 1..Len(fills) : fills[i] <= FILLING_PERCENT
    /\ \E i \in 1..Len(fills) : fills[i] = FILLING_PERCENT
\* Fill k of a group is one unit above the threshold, no other fill is above it.
OneAbove(fills, k) ==
    /\ fills[k] = FILLING_PERCENT + 1
    /\ \A i \in 1..Len(fills) : i # k => fills[i] <= FILLING_PERCENT

QuestionFills(q) == [i \in 1..5 |-> bubbles_data.items[5 * (q - 1) + i].fill_percent]
ExamFills == [i \in 1..Len(exam_model_bubbles_data.items) |->
                 exam_model_bubbles_data.items[i].fill_percent]
ColumnBubbles(c) == SelectSeq(id_bubbles_data.items, LAMBDA b : b.column = c)
ColumnFills(c) == [i \in 1..Len(ColumnBubbles(c)) |-> ColumnBubbles(c)[i].fill_percent]

\* C4: in the answer, exam-model and ID decoders alike, a bubble whose fill equals
\* the threshold is unfilled (a group with no fill above it decodes as blank) and a
\* bubble one unit above the threshold is filled (it alone decides the group).
C4_ThresholdExclusive ==
    pc = "graded" =>
        /\ \A q \in 1..(Len(bubbles_data.items) \div 5) :
              /\ AtThreshold(QuestionFills(q)) => grade_data.answers[q].answer = None
              /\ \A k \in 1..5 :
                    OneAbove(QuestionFills(q), k) => grade_data.answers[q].answer = Alphabet[k]
        /\ Truthy(exam_model_bubbles_data) =>
              /\ AtThreshold(ExamFills) => grade_data.exam_model[1].value = "BLANK"
              /\ \A k \in 1..Len(ExamFills) :
                    OneAbove(ExamFills, k) => grade_data.exam_model[1].value = Alphabet[k]
        /\ Truthy(id_bubbles_data) =>
              \A n \in 1..Len(IdColumns) :
                  LET c == IdColumns[n]
                  IN  /\ AtThreshold(ColumnFills(c)) => grade_data.id[1].value[n] = "_"
                      /\ \A k \in 1..Len(ColumnFills(c)) :
                            OneAbove(ColumnFills(c), k) =>
                                <<grade_data.id[1].value[n]>> = str(ColumnBubbles(c)[k].number)

\* C4, its case: an exam-model block with one bubble on the threshold and one a unit
\* above it reads the letter of the second.
C4_Witness ==
    /\ pc = "graded"
    /\ Truthy(exam_model_bubbles_data)
    /\ ExamFills = <<FILLING_PERCENT, FILLING_PERCENT + 1, 5>>
    /\ grade_data.exam_model[1].value = "B"

(***************************************************************************)
(* Properties: the ID and exam-model decoders (SpecGrade).                 *)
(***************************************************************************)
\* The character of ID column c: '_' for no filled bubble, the digit of the filled
\* row for one, 'X' for more.
ColumnChar(c) ==
    LET filled == {i \in 1..Len(id_bubbles_data.items) :
                      /\ id_bubbles_data.items[i].column = c
                      /\ id_bubbles_data.items[i].fill_percent > FILLING_PERCENT}
    IN  IF filled = {} THEN "_"
        ELSE IF Cardinality(filled) > 1 THEN "X"
        ELSE Digits[id_bubbles_data.items[CHOOSE i \in filled : TRUE].number + 1]

IdComplete == \A n \in 1..Len(grade_data.id[1].value) : grade_data.id[1].value[n] \notin {"_", "X"}

\* The columns of the supplied ID bubble data, in column order.
RECURSIVE Ascending(_)
Ascending(S) ==
    IF S = {} THEN <<>>
    ELSE LET m == CHOOSE x \in S : \A y \in S : x <= y
         IN  <<m>> \o Ascending(S \ {m})
SuppliedColumns ==
    Ascending({id_bubbles_data.items[i].column : i \in 1..Len(id_bubbles_data.items)})

\* C5 as stated: the id has exactly one character per digit column of the supplied ID
\* bubble data, in column order ('_', the digit, or 'X'), and is_complete is true iff
\* it has neither '_' nor 'X'; five columns 0..4 with only column 2 marked at row 7
\* read '7' in the third position.
C5_OneCharPerSuppliedColumn ==
    (pc = "graded" /\ Truthy(id_bubbles_data)) =>
        /\ Len(grade_data.id) = 1
        /\ grade_data.id[1].value =
               [n \in 1..Len(SuppliedColumns) |-> ColumnChar(SuppliedColumns[n])]
        /\ grade_data.id[1].is_complete <=> IdComplete

\* C5, amended: the id has exactly one character for each of the columns 3, 4, 5, 6, 7,
\* in that order, whatever columns the supplied data have ('_' for a column without a
\* filled bubble, the digit of the filled row, 'X' for several), and is_complete is
\* true iff it has neither '_' nor 'X'.
C5_OneCharPerColumn3To7 ==
    (pc = "graded" /\ Truthy(id_bubbles_data)) =>
        /\ Len(grade_data.id) = 1
        /\ grade_data.id[1].value = [n \in 1..5 |-> ColumnChar(n + 2)]
        /\ grade_data.id[1].is_complete <=> IdComplete

\* C5, its case: columns 3..7 of ten rows, only column 5 marked, at row 7.
C5_Witness ==
    /\ pc = "graded"
    /\ Len(id_bubbles_data.items) = 50
    /\ SuppliedColumns = <<3, 4, 5, 6, 7>>
    /\ \A i \in 1..Len(id_bubbles_data.items) :
          LET b == id_bubbles_data.items[i]
          IN  b.fill_percent > FILLING_PERCENT <=> (b.column = 5 /\ b.number = 7)
    /\ grade_data.id[1].value = <<"_", "_", "7", "_", "_">>
    /\ ~grade_data.id[1].is_complete

\* The exam-model options whose fill is above the threshold.
FilledModels ==
    {i \in 0..(Len(exam_model_bubbles_data.items) - 1) :
        exam_model_bubbles_data.items[i + 1].fill_percent > FILLING_PERCENT}

\* C6: whenever exam-model fill data is given to calculate_grade, the result has an
\* exam_model whose value is BLANK when no option has fill > T, MULTIPLE when more
\* than one has, and else the letter chr('A' + index) of the one; is_valid is true
\* iff the value is a single letter.
C6_ExamModelValue ==
    (pc = "graded" /\ Truthy(exam_model_bubbles_data)) =>
        /\ Len(grade_data.exam_model) = 1
        /\ LET exam_model == grade_data.exam_model[1]
           IN  /\ FilledModels = {} => exam_model.value = "BLANK"
               /\ Cardinality(FilledModels) > 1 => exam_model.value = "MULTIPLE"
               /\ \A i \in FilledModels :
                     FilledModels = {i} => exam_model.value = Alphabet[i + 1]
               /\ exam_model.is_valid <=>
                     \E k \in 1..Len(Alphabet) : exam_model.value = Alphabet[k]

\* C6, its case: two marked options read MULTIPLE, which is not valid.
C6_Witness ==
    /\ pc = "graded"
    /\ Cardinality(FilledModels) = 2
    /\ grade_data.exam_model[1].value = "MULTIPLE"
    /\ ~grade_data.exam_model[1].is_valid

(***************************************************************************)
(* Properties: failed slots (SpecPipeline).                                *)
(***************************************************************************)
\* The slots collected on the sheet that the reference layout lacks: their detection
\* failed when the layout was saved.
FailedSlots ==
    Ids(coordinates) \ {reference_data.bubbles[i].id : i \in 1..Len(reference_data.bubbles)}
\* The questions all five option slots of which were collected.
Questions == {q \in {id.q : id \in Ids(coordinates)} :
                 \A b \in 1..5 : [q |-> q, b |-> b] \in Ids(coordinates)}
\* The options of question q read as filled, the failed slots counting as unfilled.
OwnFilled(q) ==
    {b \in 1..5 : /\ [q |-> q, b |-> b] \notin FailedSlots
                  /\ image.fill[[q |-> q, b |-> b]] > FILLING_PERCENT}
OwnAnswer(q) ==
    IF OwnFilled(q) = {} THEN None
    ELSE IF Cardinality(OwnFilled(q)) > 1 THEN "multiple"
    ELSE Alphabet[CHOOSE b \in OwnFilled(q) : TRUE]

\* C7: for every sheet and every set of failed slots, every question is reported
\* under its own number with the answer decoded from its own five option slots, the
\* failed ones counted as unfilled.
C7_FailedSlotIsBlank ==
    (pc = "done" /\ result.success) =>
        \A q \in Questions :
            \E i \in 1..Len(grade_data.answers) :
                /\ grade_data.answers[i].question = q
                /\ grade_data.answers[i].answer = OwnAnswer(q)

(***************************************************************************)
(* Properties: detection (SpecDetect).                                     *)
(***************************************************************************)
\* How many entries of a list are about the bubble id.
Occurrences(list, id) == Cardinality({i \in 1..Len(list) : list[i].id = id})

\* Every coordinate id is in exactly one of the two lists, which hold nothing else.
ExactlyOneList ==
    /\ \A id \in Ids(coordinates) :
          Occurrences(bubble_data, id) + Occurrences(failed_coords, id) = 1
    /\ Len(bubble_data) + Len(failed_coords) = Len(coordinates)
    /\ \A i \in 1..Len(bubble_data) : bubble_data[i].fill_percent \in 0..100
    /\ \A i \in 1..Len(failed_coords) : failed_coords[i].error # ""

\* C8: whatever is found on the sheet, detect_bubble_edges has a next statement to
\* execute until it returns, and when it has returned every coordinate id is in
\* exactly one of bubble_data (with a fill score) and failed_coords (with a reason):
\* never in both and never in neither.
C8_EachIdInExactlyOneList ==
    /\ pc # "returned" => ENABLED NextDetect
    /\ pc = "returned" => ExactlyOneList

\* C8, its case: a sheet returned with detected and with failed bubbles.
C8_Witness ==
    /\ pc = "returned"
    /\ Len(bubble_data) > 0
    /\ Len(failed_coords) > 0

\* The main loop has just recorded id as failed for want of a contour.
JustFailed(id) ==
    /\ pc \in {"main", "returned"}
    /\ slot > 1
    /\ questions[slot - 1] = id
    /\ Len(failed_coords) > 0
    /\ failed_coords[Len(failed_coords)] = [id |-> id, error |-> "No suitable contour found"]

\* The candidate a strategy finds on the ROI of id is one the strategy accepts.
Accepts(id, method, target) ==
    LET candidate == blurred[id][method]
    IN  /\ candidate.found
        /\ candidate.circularity > 0
        /\ IF method \in {"contour", "standard"}
           THEN InBand(candidate.area, target, 5, 15)
           ELSE InBand(candidate.area, target, 7, 13)

WholeChain ==
    /\ attempted = <<"contour", "hough", "template">>
    /\ \A i \in 1..3 : ~Accepts(questions[slot - 1], attempted[i], target_area)

\* C9 as stated: in the main pass a slot of any position B1..B5 is recorded 'No
\* suitable contour found' only after every strategy of the chain (contour,
\* circle transform, template) was attempted on its ROI and none was accepted.
C9_FailedOnlyAfterWholeChain ==
    \A id \in Ids(coordinates) : JustFailed(id) => WholeChain

\* C9, amended: in the main pass a B4 or B5 slot is recorded 'No suitable contour
\* found' only after every strategy of the chain was attempted on its ROI and none
\* was accepted; a B1, B2 or B3 slot is recorded so after the standard contour
\* detection alone found no acceptable contour, the chain not being run on it.
C9_FailedAfterChainForB4B5 ==
    \A id \in Ids(coordinates) :
        JustFailed(id) =>
            IF id.b \in {4, 5}
            THEN WholeChain
            ELSE attempted = <<"standard">> /\ ~Accepts(id, "standard", target_area)

\* C9, its case: a B4 slot recorded as failed after the three strategies.
C9_Witness ==
    \E id \in Ids(coordinates) :
        /\ id.b = 4
        /\ JustFailed(id)
        /\ attempted = <<"contour", "hough", "template">>

\* The first strategy of the running fallback call that yielded an accepted candidate.
Successes == {k \in 1..Len(attempted) : Accepts(coord, attempted[k], FallbackTarget)}
FirstSuccess == CHOOSE k \in Successes : \A j \in Successes : k <= j

\* C10: detect_bubble_fallback stops at the first success: once a strategy has
\* yielded an accepted candidate no later strategy is attempted, and the candidate
\* returned is the one of that first successful strategy.
C10_FirstSuccessWins ==
    (pc \in {"first_fallback", "main_fallback"} /\ Successes # {}) =>
        /\ Len(attempted) = FirstSuccess
        /\ best_contour = roi[attempted[FirstSuccess]]

\* bubble_sheet_reader.py line 647: the smallest of the minimum circularities, in
\* hundredths.
MinCircularity == 20

\* The contour strategy has just kept a candidate as the best one.
ContourKept ==
    /\ best_contour.found
    /\ \/ pc \in {"first_fallback", "main_fallback"} /\ attempted = <<"contour">>
       \/ pc \in {"main", "returned"} /\ attempted = <<"standard">>

\* C11: every candidate the contour strategy accepts has an area within 0.5 to 1.5
\* times the target area and a circularity of at least the minimum (never below
\* 0.2); a contour that violates either bound is never the best candidate.
C11_ContourCandidateInBounds ==
    ContourKept =>
        /\ InBand(best_contour.area, FallbackTarget, 5, 15)
        /\ best_contour.circularity >= MinCircularity

\* The main pass has begun: the target area of the sheet is set.
InMainPass == pc \in {"main", "main_fallback", "returned"}

\* C12 as stated: every candidate that reaches bubble_data, and so every candidate
\* that is scored, has an area between 0.5 and 1.5 times the target area of the
\* sheet, and that target area was computed from candidates accepted before on the
\* same sheet.
C12_TargetFromAcceptedCandidates ==
    \A i \in 1..Len(bubble_data) :
        /\ InMainPass
        /\ InBand(bubble_data[i].area, target_area, 5, 15)
        /\ Len(reference_bubbles) > 0
        /\ target_area = median(reference_bubbles)

\* C12, amended: every candidate that reaches bubble_data has an area between 0.5
\* and 1.5 times the target area of the sheet, and that target area is the median
\* of the areas the reference pass accepted on the same sheet, or the default 200
\* when the reference pass accepted none.
C12_RecordedAreaInBand ==
    /\ \A i \in 1..Len(bubble_data) :
          /\ InMainPass
          /\ InBand(bubble_data[i].area, target_area, 5, 15)
    /\ InMainPass => target_area = get_average_bubble_area(reference_bubbles)

\* C12, its case: bubbles recorded on a sheet the target area of which is the
\* median of the accepted reference areas, not the default.
C12_Witness ==
    /\ pc = "returned"
    /\ Len(bubble_data) > 1
    /\ Len(failed_coords) > 0
    /\ Len(reference_bubbles) > 1
    /\ target_area # DefaultTargetArea

\* The candidate a strategy contributes to the chain run with the default target.
Offer(r, method) ==
    IF /\ r[method].found
       /\ r[method].circularity > 0
       /\ InBand(r[method].area, DefaultTargetArea,
                 IF method = "contour" THEN 5 ELSE 7, IF method = "contour" THEN 15 ELSE 13)
    THEN r[method] ELSE NoContour

\* The areas the reference pass accepts on the ROI r: of the candidates offered, the
\* roundest, the earlier strategy winning a tie; none if the ROI is empty, if the
\* template matching raises or if nothing is offered.
ReferenceAreasOf(r) ==
    LET chain == <<"contour", "hough", "template">>
        best == CHOOSE k \in 1..3 :
                    /\ Offer(r, chain[k]).found
                    /\ \A j \in 1..3 :
                          \/ Offer(r, chain[j]).circularity < Offer(r, chain[k]).circularity
                          \/ Offer(r, chain[j]).circularity = Offer(r, chain[k]).circularity /\ k <= j
    IN  IF r.empty \/ r.template_error \/ \A k \in 1..3 : ~Offer(r, chain[k]).found
        THEN <<>>
        ELSE <<Offer(r, chain[best]).area>>

\* The areas accepted on the reference positions (neither B4 nor B5) among the
\* first n coordinates of the loop.
RECURSIVE ReferenceAreas(_)
ReferenceAreas(n) ==
    IF n = 0 THEN <<>>
    ELSE IF questions[n].b \in {4, 5} THEN ReferenceAreas(n - 1)
    ELSE ReferenceAreas(n - 1) \o ReferenceAreasOf(blurred[questions[n]])

\* The k-th smallest of a list of areas.
Smallest(areas, k) ==
    CHOOSE v \in {areas[i] : i \in 1..Len(areas)} :
        /\ Cardinality({i \in 1..Len(areas) : areas[i] < v}) < k
        /\ Cardinality({i \in 1..Len(areas) : areas[i] <= v}) >= k

\* The target area the sheet calls for.
SheetTarget ==
    LET areas == ReferenceAreas(Len(questions))
        n == Len(areas)
    IN  IF n = 0 THEN 200
        ELSE IF n % 2 = 1 THEN Smallest(areas, (n + 1) \div 2)
        ELSE (Smallest(areas, n \div 2) + Smallest(areas, (n \div 2) + 1)) \div 2

\* C13: the reference pass over all the reference positions (the slots that are
\* neither B4 nor B5) is complete before the first slot of the main pass is
\* processed; the target area is the median of the areas accepted in the reference
\* pass (the default 200 when none was accepted), and that one value is used
\* unchanged for every slot of the main pass.
C13_ReferencePassFirst ==
    /\ ~InMainPass => bubble_data = <<>> /\ failed_coords = <<>> /\ target_area = 0
    /\ InMainPass =>
          /\ reference_bubbles = ReferenceAreas(Len(questions))
          /\ target_area = SheetTarget
          /\ FallbackTarget = SheetTarget

\* C13, its case: a sheet returned, the target area of which lies between the two
\* reference areas accepted, with bubbles recorded in the main pass.
C13_Witness ==
    /\ pc = "returned"
    /\ reference_bubbles = <<240, 200>>
    /\ target_area = 220
    /\ Len(bubble_data) = 2

\* The main pass finds a candidate on the ROI of id.
MainFound(id) ==
    /\ ~blurred[id].empty
    /\ IF id.b \in {4, 5}
       THEN /\ ~blurred[id].template_error
            /\ \E m \in {"contour", "hough", "template"} : Accepts(id, m, target_area)
       ELSE Accepts(id, "standard", target_area)

\* The entries of a list that are about the bubble id.
EntriesOf(list, id) == {list[i] : i \in {j \in 1..Len(list) : list[j].id = id}}

\* C14: in the main pass a candidate is normalized to the target area before it is
\* scored, and a candidate the area of which is outside the accepted band after the
\* normalization is handled like a bubble not found: it gets no fill score, is
\* absent from bubble_data and is recorded in failed_coords with its position and
\* the reason.
C14_AbnormalSizeIsFailure ==
    pc = "returned" =>
        \A id \in Ids(coordinates) :
            MainFound(id) =>
                IF blurred[id].scale_error
                THEN /\ EntriesOf(bubble_data, id) = {}
                     /\ EntriesOf(failed_coords, id) = {[id |-> id, error |-> "Abnormal bubble size"]}
                ELSE /\ EntriesOf(failed_coords, id) = {}
                     /\ \A e \in EntriesOf(bubble_data, id) :
                           /\ e.area = target_area
                           /\ e.fill_percent = blurred[id].fill_percent
                     /\ EntriesOf(bubble_data, id) # {}

\* C14, its case: a sheet returned with a bubble scored and with a B1 and a B5
\* candidate rejected for their size after the normalization.
C14_Witness ==
    /\ pc = "returned"
    /\ Len(bubble_data) > 0
    /\ \E id \in Ids(coordinates) :
          id.b = 1 /\ EntriesOf(failed_coords, id) = {[id |-> id, error |-> "Abnormal bubble size"]}
    /\ \E id \in Ids(coordinates) :
          id.b = 5 /\ EntriesOf(failed_coords, id) = {[id |-> id, error |-> "Abnormal bubble size"]}

(***************************************************************************)
(* Properties: fill scoring (SpecFill).                                    *)
(***************************************************************************)
\* C15: for every grayscale ROI and every mask, the fill percent returned by
\* calculate_fill_percentage (the 0.4/0.3/0.3 weighted average of its three
\* estimates) and the fill percent returned by process_bubble lie in 0..100.
C15_FillPercentInRange ==
    pc \in {"calculate_fill_percentage", "process_bubble"} =>
        /\ fill_percent.den > 0
        /\ 0 <= fill_percent.num
        /\ fill_percent.num <= 100 * fill_percent.den

\* C15, its case: calculate_fill_percentage returns 100 on a dark ROI the mask of
\* which leaves a pixel out.
C15_Witness ==
    /\ pc = "calculate_fill_percentage"
    /\ countNonZero(roi_mask) \in 1..(Len(roi_mask) - 1)
    /\ fill_percent.num = 100 * fill_percent.den

\* C16: one single global threshold decides filled versus unfilled everywhere: the
\* decoding of calculate_grade and the colouring of process_bubble, the colouring
\* of detect_bubble_edges and the grid cells of analyze_bubbles compare the fill
\* percent with the same value, so that no fill percent is filled in one place
\* and unfilled in another.
C16_OneGlobalThreshold ==
    pc \in {"calculate_fill_percentage", "process_bubble"} =>
        /\ GradeFilled(fill_percent) <=> OverlayFilled(fill_percent)
        /\ GradeFilled(fill_percent) <=> GridMarked(fill_percent)

(***************************************************************************)
(* Properties: registration of placed markers (SpecRegister).              *)
(***************************************************************************)
\* The ids of a marker list.
MarkerIds(markers) == {markers[i].id : i \in 1..Len(markers)}

\* The center of the marker of an id in a list where it occurs once.
CenterOf(markers, id) ==
    markers[CHOOSE i \in 1..Len(markers) : markers[i].id = id].center

\* compare_with_reference has returned a transform.
Registered == aligned.called /\ ~aligned.raised

\* The three smallest of the common ids, in ascending order.
SmallestCommon ==
    LET rank(id) == Cardinality({other \in CommonIds : other < id})
    IN  [k \in 1..3 |-> CHOOSE id \in CommonIds : rank(id) = k - 1]

\* The transform solved from the three common markers of the smallest ids.
SmallestTransform ==
    [src |-> [k \in 1..3 |-> CenterOf(image.markers, SmallestCommon[k])],
     dst |-> [k \in 1..3 |-> CenterOf(reference_data.aruco_markers, SmallestCommon[k])]]

\* The matrix of t is the matrix of e: it takes the three src points of e to the
\* three dst points of e.
SameTransform(t, e) ==
    \A k \in 1..3 :
        /\ Warp(t, e.src[k]).x = Warp(t, e.src[k]).den * e.dst[k][1]
        /\ Warp(t, e.src[k]).y = Warp(t, e.src[k]).den * e.dst[k][2]

\* C17: when 3 or more marker ids are common to the reference layout and the
\* photograph, compare_with_reference solves the transform from the three common
\* markers of the smallest ids, matched by id, so that the result is the same for
\* every order of the reference marker list and of the current marker list.
C17_TransformFromSmallestIds ==
    (Registered /\ Cardinality(CommonIds) >= 3) =>
        SameTransform(aligned.transform_matrix, SmallestTransform)

Abs(n) == IF n < 0 THEN 0 - n ELSE n

\* The transform takes the point p to within 1 pixel of the point q, on both axes.
WithinOnePixel(t, p, q) ==
    /\ Abs(Warp(t, p).x - Warp(t, p).den * q[1]) <= Abs(Warp(t, p).den)
    /\ Abs(Warp(t, p).y - Warp(t, p).den * q[2]) <= Abs(Warp(t, p).den)

\* C18: for every marker id matched between the reference layout and the current
\* image, not only the three used to solve, the returned transform takes the center
\* of the marker in the current image to within 1 pixel of its reference center.
C18_AllMatchedWithinOnePixel ==
    Registered =>
        \A id \in CommonIds :
            WithinOnePixel(aligned.transform_matrix,
                           CenterOf(image.markers, id),
                           CenterOf(reference_data.aruco_markers, id))

(***************************************************************************)
(* Properties: grid inference (SpecGrid).                                  *)
(***************************************************************************)
\* The grid has an entry for a row of a column.
HasEntry(row, col) == \E g \in grid : g.row = row /\ g.col = col

\* C19: every entry grid[row][column] of a processed column comes from a row
\* cluster of exactly one candidate; a row cluster of more than one candidate
\* gives no entry.
C19_RowOfOneCandidate ==
    \A k \in 1..Len(row_labels) :
        \A r \in Labels(row_labels[k]) :
            /\ HasEntry(r, k - 1) => Cardinality(RowBubbles(row_labels[k], r)) = 1
            /\ Cardinality(RowBubbles(row_labels[k], r)) > 1 => ~HasEntry(r, k - 1)

\* A column is processed where a row cluster of two filled candidates gave no
\* entry and a row cluster of one candidate gave one.
C19_Witness ==
    /\ pc = "analyzed"
    /\ \E k \in 1..Len(row_labels) :
          /\ \E r \in Labels(row_labels[k]) :
                /\ Cardinality(RowBubbles(row_labels[k], r)) = 2
                /\ \A i \in RowBubbles(row_labels[k], r) : columns[k][i].fill > GridThreshold
                /\ ~HasEntry(r, k - 1)
          /\ \E r \in Labels(row_labels[k]) :
                /\ Cardinality(RowBubbles(row_labels[k], r)) = 1
                /\ HasEntry(r, k - 1)

\* The candidates are a perfect grid of R rows and C columns.
IsPerfectGrid(R, C) ==
    \E scale \in 1..MaxScale, pattern \in FillPatterns :
        bubble_coords = PerfectGrid(R, C, scale, pattern)

\* C20: for every perfect grid of R rows and C columns, at every scale, the
\* clustering ends with exactly C columns and exactly R rows in each column.
C20_PerfectGridRecovered ==
    \A R \in (1..MaxRows) \cup {LongColumn}, C \in 1..MaxCols :
        IsPerfectGrid(R, C) =>
            /\ pc # "raised ValueError"
            /\ pc = "analyzed" =>
                  /\ Len(columns) = C
                  /\ \A k \in 1..Len(columns) :
                        /\ Cardinality(Labels(row_labels[k])) = R
                        /\ \A r \in Labels(row_labels[k]) :
                              Cardinality(RowBubbles(row_labels[k], r)) = 1

(***************************************************************************)
(* Properties: the fill scorer on a darkened ROI (SpecDarken).             *)
(***************************************************************************)
\* C21: calculate_fill_percentage is monotonic: when pixels inside the fixed mask
\* are darkened, the fill percent of the darkened ROI is at least the fill percent
\* of the ROI before.
C21_DarkerNeverLess ==
    [][pc = "calculate_fill_percentage" =>
          fill_percent'.num * fill_percent.den >= fill_percent.num * fill_percent'.den]_vars

(***************************************************************************)
(* Properties: the decoding of process_image (SpecReader).                 *)
(***************************************************************************)
\* C22: no decoding path resolves a group with more than one filled bubble to one
\* of its options: process_image reports a question with several marked columns
\* as MULTIPLE, an ID column with several marked rows as X and an exam-model
\* block with several marked bubbles as MULTIPLE, as calculate_grade does.
C22_NeverDisambiguated ==
    /\ pc = "answers decoded" =>
          \A row \in GridRows :
              Cardinality(ColumnsOfRow(row)) > 1 => results.answers[row + 1] = "MULTIPLE"
    /\ (pc = "id decoded" /\ grid # {}) =>
          \A n \in 1..10 :
              Cardinality(RowsOfColumn(n - 1)) > 1 => results.id_number[n] = "X"
    /\ pc = "exam model decoded" =>
          (Cardinality(MarkedPlaces(SortByX(bubble_coords))) > 1 => results.exam_model = "MULTIPLE")

C24_NoMarkerEmptyList ==
    (aligned.called /\ image.loaded /\ Len(image.markers) = 0) =>
        /\ ~current_markers.is_none
        /\ current_markers.items = <<>>

(***************************************************************************)
(* Properties: archive_unpaid_students (SpecArchive).                      *)
(***************************************************************************)
AllRunsDone == pc = "db" /\ runs # <<>> /\ \A r \in Runs : runs[r].pc = "done"

\* C25: every active student with no payment for the current month and none for
\* the previous month is moved to the archive, whatever the earlier payments: when
\* the runs have returned, each student left in the students collection has paid
\* for the current or for the previous month.
C25_UnpaidTwoMonthsArchived ==
    AllRunsDone =>
        \A id \in DOMAIN students :
            \/ current_month \in students[id].monthsales
            \/ last_month \in students[id].monthsales

\* The records the archive holds of a student.
ArchivedRecords(id) == {i \in 1..Len(archived_students) : archived_students[i].id = id}

\* C30: under every interleaving of the runs a student is archived at most once:
\* when all runs have returned, the archive holds at most one record per student
\* and no student is both active and archived.
C30_ArchivedAtMostOnce ==
    AllRunsDone =>
        \A id \in StudentIds :
            /\ Cardinality(ArchivedRecords(id)) <= 1
            /\ ~(id \in DOMAIN students /\ ArchivedRecords(id) # {})

(***************************************************************************)
(* Properties: the blacklist routes (SpecBlacklist).                       *)
(***************************************************************************)
\* C26: blacklisting is a reversible move: adding a student takes the record from
\* students to the blacklist with the data of the student kept, and removing an
\* entry from the blacklist puts the student back into students, so that after
\* add and remove the student is in students and not in the blacklist.
C26_BlacklistReversible ==
    [][/\ pc' = "added" =>
             \A id \in (DOMAIN students) \ (DOMAIN students') :
                 \E b \in BlacklistedAs(blacklist', id) :
                     /\ blacklist'[b].monthsales = students[id].monthsales
                     /\ blacklist'[b].months_without_payment = students[id].months_without_payment
       /\ pc' = "removed" =>
             \A b \in (DOMAIN blacklist) \ (DOMAIN blacklist') :
                 /\ blacklist[b].original_student_object_id \in DOMAIN students'
                 /\ BlacklistedAs(blacklist', blacklist[b].original_student_object_id) = {}]_vars

(***************************************************************************)
(* Properties: the exam-model fills of create_visualization (SpecPipeline). *)
(***************************************************************************)
\* C27: whenever an exam-model layout of k bubbles is supplied to
\* create_visualization, calculate_grade receives exactly k exam-model fills and
\* the result has an exam_model value, on every path: marker-based positions,
\* stored coordinates, and no marker found again in the aligned image.
C27_ExamFillsMatchLayout ==
    (/\ pc = "done"
     /\ aligned.called
     /\ ~aligned.raised
     /\ exam_model_reference_data.present
     /\ Len(exam_model_reference_data.exam_model_bubbles) > 0) =>
        /\ Len(exam_model_bubbles_data.items) = Len(exam_model_reference_data.exam_model_bubbles)
        /\ Len(grade_data.exam_model) = 1

(***************************************************************************)
(* Properties: the counts of calculate_grade (SpecGrade).                   *)
(***************************************************************************)
\* C28: for a list of n answer-bubble fills calculate_grade reports
\* total_questions = floor(n / 5) and that many answer records, numbered
\* 1..total_questions in order, each with exactly 5 fill percentages, those of its
\* group; every question is counted in exactly one statistic, so
\* total_answered + multiple_answers + unanswered = total_questions.
C28_QuestionCounts ==
    pc = "graded" =>
        LET n == Len(bubbles_data.items)
            statistics == grade_data.statistics
        IN  /\ grade_data.total_questions * 5 <= n
            /\ n < (grade_data.total_questions + 1) * 5
            /\ Len(grade_data.answers) = grade_data.total_questions
            /\ \A q \in 1..Len(grade_data.answers) :
                  /\ grade_data.answers[q].question = q
                  /\ Len(grade_data.answers[q].fill_percentages) = 5
                  /\ \A i \in 1..5 :
                        grade_data.answers[q].fill_percentages[i]
                            = bubbles_data.items[5 * (q - 1) + i].fill_percent
            /\ statistics.total_answered + statistics.multiple_answers
                   + statistics.unanswered = grade_data.total_questions
            /\ (statistics.total_answered > 0) =
                   (\E q \in 1..Len(grade_data.answers) :
                        grade_data.answers[q].answer \notin {None, "multiple"})

\* C28, its case: 7 fills, two beyond the last complete group, give one question,
\* counted once, as answered.
C28_Witness ==
    /\ pc = "graded"
    /\ Len(bubbles_data.items) = 7
    /\ grade_data.total_questions = 1
    /\ Len(grade_data.answers) = 1
    /\ grade_data.answers[1].question = 1
    /\ grade_data.statistics = [total_answered |-> 1, multiple_answers |-> 0, unanswered |-> 0]

(***************************************************************************)
(* app/utils/exam_corrector.py: ExamCorrector, scoring a sheet against the  *)
(* sheet of the answer key.                                                 *)
(***************************************************************************)
MaxAnswers == 3      \* answers on the student's sheet, and on the key's

\* The answers calculate_grade writes: None, 'multiple' or a letter.
StudentLetters == {"A", "B"}
KeyLetters == {"A"}
AnswersOfGrade(letters) ==
    UNION {[1..n -> {[answer |-> a] : a \in {None, "multiple"} \cup letters}] : n \in 0..MaxAnswers}

\* The results of process_bubble_sheet: falsy, without 'grade_data', with a
\* grade_data without 'answers', and with answers. An optional key is a list of
\* zero or one entry.
Processing(answers) == [present |-> TRUE, grade_data |-> <<[answers |-> <<answers>>]>>]
ProcessingResults(letters) ==
    {NoProcessing,
     [present |-> TRUE, grade_data |-> <<>>],
     [present |-> TRUE, grade_data |-> <<[answers |-> <<>>]>>]}
    \cup {Processing(answers) : answers \in AnswersOfGrade(letters)}

\* The final degrees of an exam.
FinalDegrees == {0, 10}

\* lines 156-160: the answer kept for one answer_data
ExtractedKeepingMultiple(answer) ==
    IF answer = None \/ answer = "" THEN None ELSE answer
Extracted(answer) ==
    IF answer = "multiple" THEN None
    ELSE IF answer = None \/ answer = "" THEN None
    ELSE answer

\* lines 146-165
_extract_answers(processing_results) ==
    IF ~processing_results.present \/ processing_results.grade_data = <<>> THEN <<>>
    ELSE IF processing_results.grade_data[1].answers = <<>> THEN <<>>
    ELSE LET answers == processing_results.grade_data[1].answers[1]
         IN  [i \in 1..Len(answers) |-> Extracted(answers[i].answer)]

\* str(x).upper() on the answers
upper(x) ==
    CASE x = "a" -> "A"
      [] x = "b" -> "B"
      [] x = "multiple" -> "MULTIPLE"
      [] OTHER -> x

\* lines 190-196: the list padded with None to max_questions
Padded(answers, max_questions) ==
    [i \in 1..max_questions |-> IF i <= Len(answers) THEN answers[i] ELSE None]

\* round(x, 2) of x = num / den, in hundredths. A quotient half-way between two
\* hundredths needs 8 to divide den, more questions than MaxAnswers allows.
round2(num, den) == (200 * num + den) \div (2 * den)

\* lines 188-232
_calculate_score(student, correct, degree) ==
    LET max_questions == IF Len(student) > Len(correct) THEN Len(student) ELSE Len(correct)
        details ==
            [i \in 1..max_questions |->
                LET student_ans == Padded(student, max_questions)[i]
                    correct_ans == Padded(correct, max_questions)[i]
                IN  [question |-> i,
                     student_answer |-> student_ans,
                     correct_answer |-> correct_ans,
                     is_correct |-> /\ student_ans # None
                                    /\ correct_ans # None
                                    /\ upper(student_ans) = upper(correct_ans)]]
        correct_count == Cardinality({i \in 1..max_questions : details[i].is_correct})
    IN  [called |-> TRUE,
         score |-> IF max_questions > 0 THEN round2(correct_count * degree, max_questions)
                   ELSE 0,
         percentage |-> IF max_questions > 0 THEN round2(correct_count * 100, max_questions)
                        ELSE 0,
         correct_count |-> correct_count,
         total_questions |-> max_questions,
         details |-> details]

\* correct_exam, lines 65-66: the answers of both sheets
ExtractAnswers ==
    /\ pc = "correct_exam"
    /\ student_answers' = _extract_answers(student_result)
    /\ correct_answers' = _extract_answers(exam_result)
    /\ pc' = "extracted"
    /\ UNCHANGED <<student_result, exam_result, final_degree, score_result>>
    /\ UNCHANGED <<sheetData, detectVars, fillVars, gridVars, results, dbVars>>

\* correct_exam, lines 69-73: _calculate_score pads the two lists it is given
CalculateScore ==
    /\ pc = "extracted"
    /\ score_result' = _calculate_score(student_answers, correct_answers, final_degree)
    /\ student_answers' = Padded(student_answers, score_result'.total_questions)
    /\ correct_answers' = Padded(correct_answers, score_result'.total_questions)
    /\ pc' = "scored"
    /\ UNCHANGED <<student_result, exam_result, final_degree>>
    /\ UNCHANGED <<sheetData, detectVars, fillVars, gridVars, results, dbVars>>

\* Both sheets processed with success, every pair of results
InitCorrect ==
    /\ pc = "correct_exam"
    /\ InitPipelineIdle
    /\ InitNoDb
    /\ student_result \in ProcessingResults(StudentLetters)
    /\ exam_result \in ProcessingResults(KeyLetters)
    /\ final_degree \in FinalDegrees
    /\ student_answers = <<>>
    /\ correct_answers = <<>>
    /\ score_result = NoScore

NextCorrect == ExtractAnswers \/ CalculateScore

\* ExamCorrector.correct_exam after the two sheets were processed
SpecCorrect == InitCorrect /\ [][NextCorrect]_vars

(***************************************************************************)
(* Properties: ExamCorrector scoring (SpecCorrect).                         *)
(***************************************************************************)
\* The answer calculate_grade wrote for question i of a sheet, None beyond its end
AnswerOnSheet(processing_results, i) ==
    IF ~processing_results.present \/ processing_results.grade_data = <<>> THEN None
    ELSE IF processing_results.grade_data[1].answers = <<>> THEN None
    ELSE IF i > Len(processing_results.grade_data[1].answers[1]) THEN None
    ELSE processing_results.grade_data[1].answers[1][i].answer

SingleLetters == {"A", "B", "C", "D", "E"}

\* A question is counted correct only when both sheets carry the same single
\* letter, and correct_count counts those questions, never more than all of them.
CorrectOnlyEqualLetters ==
    /\ \A i \in 1..score_result.total_questions :
          score_result.details[i].is_correct =>
              /\ AnswerOnSheet(student_result, i) \in SingleLetters
              /\ AnswerOnSheet(exam_result, i) \in SingleLetters
              /\ AnswerOnSheet(student_result, i) = AnswerOnSheet(exam_result, i)
    /\ \A i \in 1..score_result.total_questions :
          AnswerOnSheet(student_result, i) \in {None, "multiple"} =>
              ~score_result.details[i].is_correct
    /\ score_result.correct_count
           = Cardinality({i \in 1..score_result.total_questions :
                             score_result.details[i].is_correct})
    /\ score_result.correct_count <= score_result.total_questions
    /\ 0 <= score_result.score
    /\ score_result.score <= 100 * final_degree

\* C29: a question counts as correct only when the student's answer and the key's
\* are both single letters and equal, a MULTIPLE or blank answer never; so
\* correct_count <= total_questions, 0 <= score <= final_degree and
\* score = correct_count / total_questions x final_degree (score in hundredths).
C29_ScoreIsShareOfDegree ==
    pc = "scored" =>
        /\ CorrectOnlyEqualLetters
        /\ score_result.score * score_result.total_questions
               = 100 * score_result.correct_count * final_degree

\* C29, as the code has it: the score returned is that share rounded to two
\* decimals, and it is 0 when neither sheet has a question.
C29_ScoreIsRoundedShare ==
    pc = "scored" =>
        /\ CorrectOnlyEqualLetters
        /\ LET difference == score_result.score * score_result.total_questions
                                 - 100 * score_result.correct_count * final_degree
           IN  /\ 2 * difference <= score_result.total_questions
               /\ -2 * difference <= score_result.total_questions
        /\ score_result.total_questions = 0 => score_result.score = 0

\* C29, its case: three questions, one equal letter, one MULTIPLE against a letter
\* of the key, one blank; final degree 10 gives the score 3.33.
C29_Witness ==
    /\ pc = "scored"
    /\ final_degree = 10
    /\ score_result.total_questions = 3
    /\ score_result.correct_count = 1
    /\ score_result.score = 333
    /\ \E i \in 1..3 : /\ AnswerOnSheet(student_result, i) = "multiple"
                       /\ AnswerOnSheet(exam_result, i) \in SingleLetters
    /\ \E i \in 1..3 : AnswerOnSheet(student_result, i) = None

====
